---- MODULE Spec2Model ----
(***************************************************************************)
(* A model of the jetrix Tetris engine (src/js/tetris.js) together with    *)
(* the keyboard layer that drives it (src/js/controls.js).                 *)
(*                                                                         *)
(* Conventions.  Coordinates are the source's 0-based board coordinates;   *)
(* TLA+ sequences are 1-based, so board[y][x] of the source is             *)
(* board[y + 1][x + 1] here.  Times are integers counted in hundredths of  *)
(* a millisecond, so that the frame step 16.67 ms is the integer 1667.     *)
(* A colour '#rrggbb' is the integer 0xrrggbb; an empty cell is 0.         *)
(* null is NoPiece for the active piece and "none" for the hold slot.      *)
(***************************************************************************)
EXTENDS Integers, Sequences, FiniteSets, TLC

\* ------------------------------------------------------------------ CONFIG

BOARD_WIDTH == 10
BOARD_HEIGHT == 20
\* CONFIG.LOCK_DELAY, in ms
LOCK_DELAY == 500
\* hundredths of a millisecond per millisecond: the resolution of 16.67
Scale == 100
\* the frame step of gameLoop, 16.67 ms
FRAME_STEP == 1667
POINTS_SINGLE == 100
POINTS_DOUBLE == 300
POINTS_TRIPLE == 500
POINTS_TETRIS == 800
POINTS_SOFT_DROP == 1
POINTS_HARD_DROP == 2
COMBO_MULTIPLIER == 50
MIN_DROP_SPEED == 50

DIFFICULTY ==
    [easy    |-> [speed |-> 1000, levelSpeed |-> 80],
     normal  |-> [speed |-> 800,  levelSpeed |-> 60],
     hard    |-> [speed |-> 600,  levelSpeed |-> 40],
     extreme |-> [speed |-> 400,  levelSpeed |-> 20]]

GameModes == {"easy", "normal", "hard", "extreme"}

TETROMINOS ==
    [I |-> [shape |-> << <<0,0,0,0>>, <<1,1,1,1>>, <<0,0,0,0>>, <<0,0,0,0>> >>,
            color |-> 65535],
     O |-> [shape |-> << <<1,1>>, <<1,1>> >>,
            color |-> 16776960],
     T |-> [shape |-> << <<0,1,0>>, <<1,1,1>>, <<0,0,0>> >>,
            color |-> 16711935],
     S |-> [shape |-> << <<0,1,1>>, <<1,1,0>>, <<0,0,0>> >>,
            color |-> 65280],
     Z |-> [shape |-> << <<1,1,0>>, <<0,1,1>>, <<0,0,0>> >>,
            color |-> 16711680],
     J |-> [shape |-> << <<1,0,0>>, <<1,1,1>>, <<0,0,0>> >>,
            color |-> 255],
     L |-> [shape |-> << <<0,0,1>>, <<1,1,1>>, <<0,0,0>> >>,
            color |-> 16746496]]

\* the order in which getNextFromBag refills the bag
BagOrder == <<"I", "O", "T", "S", "Z", "J", "L">>

PieceTypes == {"I", "O", "T", "S", "Z", "J", "L"}

NoPiece == [type |-> "none"]

\* ------------------------------------------------------------------ state

VARIABLES
    \* Game (tetris.js constructor)
    board, currentPiece, nextPieces, holdPiece, canHold,
    score, level, lines, combo, gameMode,
    isPlaying, isPaused, isGameOver,
    dropTimer, lockTimer, bag, stats, playerName,
    \* the score records handed to highscores.submitScore, the calls of
    \* gameOver suspended at their await, the showGameOverModal timeouts not
    \* yet fired, and whether the game-over modal is displayed
    submitted, awaiting, modalTimers, gameOverModal,
    \* the tick time for which the active piece has been unable to move down
    \* without being changed, and that time when gameLoop last locked a piece
    \* (-1 before it has)
    restTime, lockedAfter,
    \* the gameLoop callbacks that requestAnimationFrame holds for the next frame
    loops,
    \* Controls (controls.js constructor): the held keys among the three that
    \* own a timer, and the timers
    keys, dasTimer, arrTimer, softDropTimer,
    \* HighscoreManager.serverClient (jsonic-server.js constructor) with the
    \* callbacks it has pending, and the HighscoreManager with its stores
    serverClient, highscores,
    \* observers: the draws of the current block of seven since startGame,
    \* the value the last probed pure function returned, and the number of
    \* operations performed so far
    bagDraws, ret, steps

engineVars == <<board, currentPiece, nextPieces, holdPiece, canHold,
                score, level, lines, combo, gameMode,
                isPlaying, isPaused, isGameOver,
                dropTimer, lockTimer, bag, stats, playerName,
                submitted, awaiting, modalTimers, gameOverModal,
                restTime, lockedAfter, bagDraws>>

controlVars == <<keys, dasTimer, arrTimer, softDropTimer>>

syncVars == <<serverClient, highscores>>

vars == <<engineVars, loops, controlVars, syncVars, ret, steps>>

\* The Game object as one value, so that a method is an operator from Game
\* to Game and a method calling another is a composition.
G ==
    [board |-> board, currentPiece |-> currentPiece, nextPieces |-> nextPieces,
     holdPiece |-> holdPiece, canHold |-> canHold, score |-> score,
     level |-> level, lines |-> lines, combo |-> combo, gameMode |-> gameMode,
     isPlaying |-> isPlaying, isPaused |-> isPaused, isGameOver |-> isGameOver,
     dropTimer |-> dropTimer, lockTimer |-> lockTimer, bag |-> bag,
     stats |-> stats, playerName |-> playerName, submitted |-> submitted,
     awaiting |-> awaiting, modalTimers |-> modalTimers,
     gameOverModal |-> gameOverModal, restTime |-> restTime,
     lockedAfter |-> lockedAfter, bagDraws |-> bagDraws]

\* the Game becomes g: every field is assigned
SetG(g) ==
    \E h \in {g} :
        /\ board' = h.board
        /\ currentPiece' = h.currentPiece
        /\ nextPieces' = h.nextPieces
        /\ holdPiece' = h.holdPiece
        /\ canHold' = h.canHold
        /\ score' = h.score
        /\ level' = h.level
        /\ lines' = h.lines
        /\ combo' = h.combo
        /\ gameMode' = h.gameMode
        /\ isPlaying' = h.isPlaying
        /\ isPaused' = h.isPaused
        /\ isGameOver' = h.isGameOver
        /\ dropTimer' = h.dropTimer
        /\ lockTimer' = h.lockTimer
        /\ bag' = h.bag
        /\ stats' = h.stats
        /\ playerName' = h.playerName
        /\ submitted' = h.submitted
        /\ awaiting' = h.awaiting
        /\ modalTimers' = h.modalTimers
        /\ gameOverModal' = h.gameOverModal
        /\ restTime' = IF h.currentPiece # currentPiece THEN 0 ELSE h.restTime
        /\ lockedAfter' = h.lockedAfter
        /\ bagDraws' = h.bagDraws

\* ------------------------------------------------------------------ board

EmptyRow == [c \in 1..BOARD_WIDTH |-> 0]

\* resetBoard
EmptyBoard == [r \in 1..BOARD_HEIGHT |-> EmptyRow]

\* isValidPosition: the scan of the shape's cells in row-major order, that
\* returns false at the first filled cell out of bounds or on a filled board
\* cell, and true when the scan ends.
RECURSIVE ValidFrom(_, _, _, _, _)
ValidFrom(b, x, y, shape, k) ==
    LET n == Len(shape)
        row == k \div n
        col == k % n
        boardX == x + col
        boardY == y + row
    IN  IF k >= n * n THEN TRUE
        ELSE IF shape[row + 1][col + 1] # 0
        THEN IF boardX < 0 \/ boardX >= BOARD_WIDTH \/ boardY >= BOARD_HEIGHT
             THEN FALSE
             ELSE IF boardY >= 0 /\ b[boardY + 1][boardX + 1] # 0
             THEN FALSE
             ELSE ValidFrom(b, x, y, shape, k + 1)
        ELSE ValidFrom(b, x, y, shape, k + 1)

\* a faulty isValidPosition: an anchor above row 0 is rejected
isValidPositionInside(b, x, y, shape) == y >= 0 /\ ValidFrom(b, x, y, shape, 0)

isValidPosition(b, x, y, shape) == ValidFrom(b, x, y, shape, 0)

\* a function on 1..n as a sequence
AsSeq(f) == SubSeq(f, 1, Len(f))

\* rotateMatrix
rotateMatrix(matrix, clockwise) ==
    LET n == Len(matrix)
    IN  IF clockwise
        THEN AsSeq([r \in 1..n |-> AsSeq([c \in 1..n |-> matrix[n + 1 - c][r]])])
        ELSE AsSeq([r \in 1..n |-> AsSeq([c \in 1..n |-> matrix[c][n + 1 - r]])])

\* a faulty getWallKicks: the tables in the opposite order
getWallKicksReversed(type) ==
    IF type = "I" THEN << <<2, -1>>, <<-1, 2>>, <<2, 0>>, <<-1, 0>> >>
    ELSE IF type = "O" THEN << >>
    ELSE << <<0, 1>>, <<1, -1>>, <<-1, -1>>, <<1, 0>>, <<-1, 0>> >>

\* getWallKicks
getWallKicks(type) ==
    IF type = "I" THEN << <<-1, 0>>, <<2, 0>>, <<-1, 2>>, <<2, -1>> >>
    ELSE IF type = "O" THEN << >>
    ELSE << <<-1, 0>>, <<1, 0>>, <<-1, -1>>, <<1, -1>>, <<0, 1>> >>

\* a faulty getDropSpeed: Math.max(50, ...) is left out
getDropSpeedNoFloor(g) ==
    LET difficulty == DIFFICULTY[g.gameMode]
        baseSpeed == difficulty.speed
        speedDecrease == difficulty.levelSpeed * (g.level - 1)
    IN  baseSpeed - speedDecrease

\* getDropSpeed, in ms
getDropSpeed(g) ==
    LET difficulty == DIFFICULTY[g.gameMode]
        baseSpeed == difficulty.speed
        speedDecrease == difficulty.levelSpeed * (g.level - 1)
    IN  IF baseSpeed - speedDecrease > MIN_DROP_SPEED
        THEN baseSpeed - speedDecrease ELSE MIN_DROP_SPEED

\* ------------------------------------------------------------ bag randomizer

\* Math.random() returns a number in [0, 1): here one of n / RandDen for
\* n in 0..RandDen-1.  A refill of the bag calls it six times, for
\* i = 6, 5, .., 1: rnd[i] is the numerator of the call made for index i.
RandDen == 2

\* Math.floor(Math.random() * (i + 1))
RandomIndex(rnd, i) == (rnd[i] * (i + 1)) \div RandDen

\* a faulty swap: b[i] = b[j] alone
SwapCopy(b, i, j) == [k \in 1..Len(b) |-> IF k = i + 1 THEN b[j + 1] ELSE b[k]]

\* [b[i], b[j]] = [b[j], b[i]], on 0-based indices
Swap(b, i, j) ==
    [k \in 1..Len(b) |-> IF k = i + 1 THEN b[j + 1]
                         ELSE IF k = j + 1 THEN b[i + 1] ELSE b[k]]

\* the shuffle loop of getNextFromBag: for (i = length - 1; i > 0; i--)
RECURSIVE ShuffleFrom(_, _, _)
ShuffleFrom(b, i, rnd) ==
    IF i > 0 THEN ShuffleFrom(Swap(b, i, RandomIndex(rnd, i)), i - 1, rnd)
    ELSE b

\* getNextFromBag, as the pair of the Game afterwards and the type returned
getNextFromBag(g, rnd) ==
    LET full == IF Len(g.bag) = 0
                THEN ShuffleFrom(BagOrder, Len(BagOrder) - 1, rnd)
                ELSE g.bag
        type == full[Len(full)]
        drawn == IF Len(g.bagDraws) = Len(BagOrder) THEN <<type>>
                 ELSE Append(g.bagDraws, type)
    IN  [g |-> [g EXCEPT !.bag = SubSeq(full, 1, Len(full) - 1),
                         !.bagDraws = drawn],
         type |-> type]

\* ------------------------------------------------------------------ pieces

SpawnX(shape) == (BOARD_WIDTH - Len(shape[1])) \div 2

\* the object literal of spawnPiece and of hold
NewPiece(type) ==
    [type |-> type, shape |-> TETROMINOS[type].shape,
     color |-> TETROMINOS[type].color,
     x |-> SpawnX(TETROMINOS[type].shape), y |-> 0, rotation |-> 0]

\* the argument of highscores.submitScore, without the times
ScoreRecord(g) ==
    [playerName |-> g.playerName, score |-> g.score, level |-> g.level,
     lines |-> g.lines, gameMode |-> g.gameMode,
     piecesPlaced |-> g.stats.piecesPlaced, tSpins |-> g.stats.tSpins,
     maxCombo |-> g.stats.maxCombo]

\* a faulty gameOver: the record is handed over twice
gameOverTwice(g) ==
    [g EXCEPT !.isGameOver = TRUE, !.isPlaying = FALSE,
              !.submitted = Append(Append(@, ScoreRecord(g)), ScoreRecord(g)),
              !.awaiting = @ + 1]

\* a faulty gameOver: isPlaying is left as it is
gameOverStillPlaying(g) ==
    [g EXCEPT !.isGameOver = TRUE,
              !.submitted = Append(@, ScoreRecord(g)),
              !.awaiting = @ + 1]

\* gameOver, up to its await: the flags, the call of highscores.submitScore,
\* and the suspension
gameOver(g) ==
    [g EXCEPT !.isGameOver = TRUE, !.isPlaying = FALSE,
              !.submitted = Append(@, ScoreRecord(g)),
              !.awaiting = @ + 1]

\* gameOver from its await on, when submitScore has resolved: the timeout
\* of showGameOverModal is set
gameOverResumed(g) == [g EXCEPT !.awaiting = @ - 1, !.modalTimers = @ + 1]

\* and when submitScore has rejected: the await throws and the call ends
gameOverThrown(g) == [g EXCEPT !.awaiting = @ - 1]

\* showGameOverModal, run by the timeout
showGameOverModal(g) == [g EXCEPT !.modalTimers = @ - 1, !.gameOverModal = TRUE]

\* hideGameOverModal
hideGameOverModal(g) == [g EXCEPT !.gameOverModal = FALSE]

\* a faulty spawnPiece: the spawn position is not checked
spawnPieceUnchecked(g, rnd) ==
    LET type == Head(g.nextPieces)
        d == getNextFromBag([g EXCEPT !.nextPieces = Tail(g.nextPieces)], rnd)
    IN  [d.g EXCEPT !.nextPieces = Append(d.g.nextPieces, d.type),
                    !.currentPiece = NewPiece(type),
                    !.canHold = TRUE, !.dropTimer = 0, !.lockTimer = 0]

\* a faulty spawnPiece: the queue is not refilled
spawnPieceNoPush(g, rnd) ==
    LET g1 == [g EXCEPT !.currentPiece = NewPiece(Head(g.nextPieces)),
                        !.nextPieces = Tail(g.nextPieces)]
        p == g1.currentPiece
        g2 == IF ~isValidPosition(g1.board, p.x, p.y, p.shape)
              THEN gameOver(g1) ELSE g1
    IN  [g2 EXCEPT !.canHold = TRUE, !.dropTimer = 0, !.lockTimer = 0]

\* spawnPiece
spawnPiece(g, rnd) ==
    LET type == Head(g.nextPieces)
        d == getNextFromBag([g EXCEPT !.nextPieces = Tail(g.nextPieces)], rnd)
        g1 == [d.g EXCEPT !.nextPieces = Append(d.g.nextPieces, d.type),
                          !.currentPiece = NewPiece(type)]
        p == g1.currentPiece
        g2 == IF ~isValidPosition(g1.board, p.x, p.y, p.shape)
              THEN gameOver(g1) ELSE g1
    IN  [g2 EXCEPT !.canHold = TRUE, !.dropTimer = 0, !.lockTimer = 0]

\* a faulty guard: isPaused is not looked at
BlockedNoPause(g) == g.currentPiece = NoPiece

\* the guard every move starts with: !this.currentPiece || this.isPaused
Blocked(g) == g.currentPiece = NoPiece \/ g.isPaused

CanMove(g, dx, dy) ==
    /\ ~Blocked(g)
    /\ isValidPosition(g.board, g.currentPiece.x + dx, g.currentPiece.y + dy,
                       g.currentPiece.shape)

\* a faulty moveLeft: the lock timer is left running
moveLeftKeepsLockTimer(g) ==
    IF CanMove(g, -1, 0)
    THEN [g EXCEPT !.currentPiece.x = @ - 1]
    ELSE g

\* moveLeft: the Game afterwards; it returns CanMove(g, -1, 0)
moveLeft(g) ==
    IF CanMove(g, -1, 0)
    THEN [g EXCEPT !.currentPiece.x = @ - 1, !.lockTimer = 0]
    ELSE g

\* a faulty moveRight: the move gives a point, as moveDown does
moveRightScores(g) ==
    IF CanMove(g, 1, 0)
    THEN [g EXCEPT !.currentPiece.x = @ + 1, !.lockTimer = 0,
                   !.score = @ + POINTS_SOFT_DROP]
    ELSE g

\* moveRight: the Game afterwards; it returns CanMove(g, 1, 0)
moveRight(g) ==
    IF CanMove(g, 1, 0)
    THEN [g EXCEPT !.currentPiece.x = @ + 1, !.lockTimer = 0]
    ELSE g

\* a faulty moveDown: the soft-drop point is given before the position is
\* checked
moveDownAlwaysScores(g) ==
    IF Blocked(g) THEN g
    ELSE IF CanMove(g, 0, 1)
    THEN [g EXCEPT !.currentPiece.y = @ + 1, !.score = @ + POINTS_SOFT_DROP]
    ELSE [g EXCEPT !.score = @ + POINTS_SOFT_DROP]

\* a faulty moveDown: every call restarts the lock timer, as the lateral
\* moves do
moveDownRestartsLock(g) ==
    IF CanMove(g, 0, 1)
    THEN [g EXCEPT !.currentPiece.y = @ + 1, !.score = @ + POINTS_SOFT_DROP,
                   !.lockTimer = 0]
    ELSE [g EXCEPT !.lockTimer = 0, !.restTime = 0]

\* moveDown: the Game afterwards; it returns CanMove(g, 0, 1)
moveDown(g) ==
    IF CanMove(g, 0, 1)
    THEN [g EXCEPT !.currentPiece.y = @ + 1, !.score = @ + POINTS_SOFT_DROP]
    ELSE g

\* checkTSpin
checkTSpin(g) ==
    LET p == g.currentPiece
        corners == << <<p.x - 1, p.y - 1>>, <<p.x + 1, p.y - 1>>,
                      <<p.x - 1, p.y + 1>>, <<p.x + 1, p.y + 1>> >>
        filled(c) == \/ c[1] < 0 \/ c[1] >= BOARD_WIDTH \/ c[2] >= BOARD_HEIGHT
                     \/ (c[2] >= 0 /\ g.board[c[2] + 1][c[1] + 1] # 0)
        filledCorners == Cardinality({i \in 1..4 : filled(corners[i])})
    IN  IF p.type # "T" THEN g
        ELSE IF filledCorners >= 3 THEN [g EXCEPT !.stats.tSpins = @ + 1]
        ELSE g

\* a faulty body: the rotation index goes up by one in either direction
RotatedPlusOne(g, rotated, clockwise, kickX, kickY) ==
    checkTSpin([g EXCEPT !.currentPiece.x = @ + kickX,
                         !.currentPiece.y = @ + kickY,
                         !.currentPiece.shape = rotated,
                         !.currentPiece.rotation = (@ + 1) % 4,
                         !.lockTimer = 0])

\* the body rotate runs once a position (x + kickX, y + kickY) is accepted
Rotated(g, rotated, clockwise, kickX, kickY) ==
    checkTSpin([g EXCEPT !.currentPiece.x = @ + kickX,
                         !.currentPiece.y = @ + kickY,
                         !.currentPiece.shape = rotated,
                         !.currentPiece.rotation =
                             (@ + (IF clockwise THEN 1 ELSE 3)) % 4,
                         !.lockTimer = 0])

\* the wall-kick loop of rotate: the first kick, from the k-th on, whose
\* position is valid, or 0 when there is none
RECURSIVE FirstKick(_, _, _, _)
FirstKick(g, rotated, kicks, k) ==
    IF k > Len(kicks) THEN 0
    ELSE IF isValidPosition(g.board, g.currentPiece.x + kicks[k][1],
                            g.currentPiece.y + kicks[k][2], rotated)
    THEN k
    ELSE FirstKick(g, rotated, kicks, k + 1)

\* rotate returns true exactly when RotateOk
RotateOk(g, clockwise) ==
    /\ ~Blocked(g)
    /\ LET rotated == rotateMatrix(g.currentPiece.shape, clockwise)
       IN  \/ isValidPosition(g.board, g.currentPiece.x, g.currentPiece.y, rotated)
           \/ FirstKick(g, rotated, getWallKicks(g.currentPiece.type), 1) # 0

\* rotate: the Game afterwards
rotate(g, clockwise) ==
    IF Blocked(g) THEN g
    ELSE LET rotated == rotateMatrix(g.currentPiece.shape, clockwise)
             kicks == getWallKicks(g.currentPiece.type)
             k == FirstKick(g, rotated, kicks, 1)
         IN  IF isValidPosition(g.board, g.currentPiece.x, g.currentPiece.y, rotated)
             THEN Rotated(g, rotated, clockwise, 0, 0)
             ELSE IF k # 0
             THEN Rotated(g, rotated, clockwise, kicks[k][1], kicks[k][2])
             ELSE g

\* --------------------------------------------------------- lock and scoring

\* the loop of lockPiece that writes the piece's colour into the board, the
\* shape's cells taken in row-major order from the k-th on
RECURSIVE PlaceFrom(_, _, _)
PlaceFrom(b, p, k) ==
    LET n == Len(p.shape)
        row == k \div n
        col == k % n
        boardY == p.y + row
        boardX == p.x + col
    IN  IF k >= n * n THEN b
        ELSE IF p.shape[row + 1][col + 1] # 0 /\ boardY >= 0
        THEN PlaceFrom([b EXCEPT ![boardY + 1][boardX + 1] = p.color], p, k + 1)
        ELSE PlaceFrom(b, p, k + 1)

\* a faulty lock: boardY > 0, so that the cells in row 0 are dropped with
\* those above the board
PlacePieceBelowTop(b, p) ==
    LET placed == PlaceFrom(b, p, 0)
    IN  [placed EXCEPT ![1] = b[1]]

PlacePiece(b, p) == PlaceFrom(b, p, 0)

\* board[row].every(cell => cell !== 0)
RowComplete(rowCells) == \A c \in 1..Len(rowCells) : rowCells[c] # 0

\* a faulty removal: the row put on top is one cell short
RemoveRowShort(b, row) ==
    <<[c \in 1..(BOARD_WIDTH - 1) |-> 0]>>
        \o SubSeq(b, 1, row) \o SubSeq(b, row + 2, Len(b))

\* board.splice(row, 1); board.unshift(Array(BOARD_WIDTH).fill(0)), row 0-based
RemoveRow(b, row) ==
    <<EmptyRow>> \o SubSeq(b, 1, row) \o SubSeq(b, row + 2, Len(b))

\* a faulty loop: after a removal it goes on one row up (no row++)
RECURSIVE ClearFromSkip(_, _, _)
ClearFromSkip(b, row, linesCleared) ==
    IF row < 0 THEN [board |-> b, linesCleared |-> linesCleared]
    ELSE IF \A c \in 1..Len(b[row + 1]) : b[row + 1][c] # 0
    THEN ClearFromSkip(<<[c \in 1..BOARD_WIDTH |-> 0]>> \o SubSeq(b, 1, row)
                           \o SubSeq(b, row + 2, Len(b)),
                       row - 1, linesCleared + 1)
    ELSE ClearFromSkip(b, row - 1, linesCleared)

\* the loop of clearLines, row running from BOARD_HEIGHT - 1 down to 0 and
\* staying where it is after a removal (row++ then row--)
RECURSIVE ClearFrom(_, _, _)
ClearFrom(b, row, linesCleared) ==
    IF row < 0 THEN [board |-> b, linesCleared |-> linesCleared]
    ELSE IF RowComplete(b[row + 1])
    THEN ClearFrom(RemoveRow(b, row), row, linesCleared + 1)
    ELSE ClearFrom(b, row - 1, linesCleared)

\* a faulty clearLines: the complete rows are counted and left on the board
clearLinesCountsOnly(g) ==
    LET res == ClearFrom(g.board, BOARD_HEIGHT - 1, 0)
        total == g.lines + res.linesCleared
        newLevel == (total \div 10) + 1
    IN  IF res.linesCleared > 0
        THEN [g EXCEPT !.lines = total,
                       !.level = IF newLevel > @ THEN newLevel ELSE @]
        ELSE g

\* clearLines: the Game afterwards; it returns LinesCleared(g)
LinesCleared(g) == ClearFrom(g.board, BOARD_HEIGHT - 1, 0).linesCleared

\* a faulty clearLines: the level is taken from the lines before this clear
clearLinesStaleLevel(g) ==
    LET res == ClearFrom(g.board, BOARD_HEIGHT - 1, 0)
        newLevel == (g.lines \div 10) + 1
    IN  IF res.linesCleared > 0
        THEN [g EXCEPT !.board = res.board,
                       !.lines = @ + res.linesCleared,
                       !.level = IF newLevel > @ THEN newLevel ELSE @]
        ELSE [g EXCEPT !.board = res.board]

clearLines(g) ==
    LET res == ClearFrom(g.board, BOARD_HEIGHT - 1, 0)
        total == g.lines + res.linesCleared
        newLevel == (total \div 10) + 1
    IN  IF res.linesCleared > 0
        THEN [g EXCEPT !.board = res.board,
                       !.lines = total,
                       !.level = IF newLevel > @ THEN newLevel ELSE @]
        ELSE [g EXCEPT !.board = res.board]

\* the switch of updateScore
BasePoints(linesCleared) ==
    CASE linesCleared = 1 -> POINTS_SINGLE
      [] linesCleared = 2 -> POINTS_DOUBLE
      [] linesCleared = 3 -> POINTS_TRIPLE
      [] linesCleared = 4 -> POINTS_TETRIS
      [] OTHER -> 0

\* a faulty updateScore: the bonus counts the clear being scored
updateScoreComboAfter(g, linesCleared) ==
    [g EXCEPT !.score = @ + BasePoints(linesCleared) * g.level
                          + COMBO_MULTIPLIER * (g.combo + 1)]

\* updateScore
updateScore(g, linesCleared) ==
    LET points == BasePoints(linesCleared) * g.level
        bonus == IF g.combo > 0 THEN COMBO_MULTIPLIER * g.combo ELSE 0
    IN  [g EXCEPT !.score = @ + points + bonus]

Max(a, b) == IF a > b THEN a ELSE b

\* a faulty lockPiece: a lock that clears nothing leaves the combo counter
lockPieceKeepsCombo(g, rnd) ==
    IF g.currentPiece = NoPiece THEN g
    ELSE LET g1 == [g EXCEPT !.board = PlacePiece(g.board, g.currentPiece),
                             !.stats.piecesPlaced = @ + 1]
             linesCleared == LinesCleared(g1)
             g2 == clearLines(g1)
             g3 == IF linesCleared > 0
                   THEN LET u == updateScore(g2, linesCleared)
                        IN  [u EXCEPT !.combo = @ + 1,
                                      !.stats.maxCombo = Max(@, u.combo + 1)]
                   ELSE g2
         IN  spawnPiece(g3, rnd)

\* lockPiece
lockPiece(g, rnd) ==
    IF g.currentPiece = NoPiece THEN g
    ELSE LET g1 == [g EXCEPT !.board = PlacePiece(g.board, g.currentPiece),
                             !.stats.piecesPlaced = @ + 1]
             linesCleared == LinesCleared(g1)
             g2 == clearLines(g1)
             g3 == IF linesCleared > 0
                   THEN LET u == updateScore(g2, linesCleared)
                        IN  [u EXCEPT !.combo = @ + 1,
                                      !.stats.maxCombo = Max(@, u.combo + 1)]
                   ELSE [g2 EXCEPT !.combo = 0]
         IN  spawnPiece(g3, rnd)

\* the while loop of hardDrop: the rows the piece falls
RECURSIVE DropDistance(_, _)
DropDistance(g, d) ==
    IF isValidPosition(g.board, g.currentPiece.x, g.currentPiece.y + d + 1,
                       g.currentPiece.shape)
    THEN DropDistance(g, d + 1)
    ELSE d

\* a faulty hardDrop: a row travelled is paid as a soft-drop row
hardDropSoftPoints(g, rnd) ==
    IF Blocked(g) THEN g
    ELSE LET dropDistance == DropDistance(g, 0)
         IN  lockPiece([g EXCEPT !.currentPiece.y = @ + dropDistance,
                                 !.score = @ + dropDistance * POINTS_SOFT_DROP],
                       rnd)

\* hardDrop
hardDrop(g, rnd) ==
    IF Blocked(g) THEN g
    ELSE LET dropDistance == DropDistance(g, 0)
         IN  lockPiece([g EXCEPT !.currentPiece.y = @ + dropDistance,
                                 !.score = @ + dropDistance * POINTS_HARD_DROP],
                       rnd)

\* a faulty hold: canHold is left as it is
holdKeepsCanHold(g, rnd) ==
    IF g.currentPiece = NoPiece \/ ~g.canHold \/ g.isPaused THEN g
    ELSE IF g.holdPiece # "none"
    THEN [g EXCEPT !.holdPiece = g.currentPiece.type,
                   !.currentPiece = NewPiece(g.holdPiece)]
    ELSE spawnPiece([g EXCEPT !.holdPiece = g.currentPiece.type], rnd)

\* a faulty hold: the piece taken from the slot starts where the active
\* piece was
holdKeepsPosition(g, rnd) ==
    IF g.currentPiece = NoPiece \/ ~g.canHold \/ g.isPaused THEN g
    ELSE LET currentType == g.currentPiece.type
             swapped == IF g.holdPiece # "none"
                        THEN [g EXCEPT !.holdPiece = currentType,
                                       !.currentPiece =
                                           [NewPiece(g.holdPiece) EXCEPT
                                                !.x = g.currentPiece.x,
                                                !.y = g.currentPiece.y]]
                        ELSE spawnPiece([g EXCEPT !.holdPiece = currentType], rnd)
         IN  [swapped EXCEPT !.canHold = FALSE]

\* hold
hold(g, rnd) ==
    IF g.currentPiece = NoPiece \/ ~g.canHold \/ g.isPaused THEN g
    ELSE LET currentType == g.currentPiece.type
             swapped == IF g.holdPiece # "none"
                        THEN [g EXCEPT !.holdPiece = currentType,
                                       !.currentPiece = NewPiece(g.holdPiece)]
                        ELSE spawnPiece([g EXCEPT !.holdPiece = currentType], rnd)
         IN  [swapped EXCEPT !.canHold = FALSE]

\* a faulty pause: it toggles isPaused
pauseToggles(g) ==
    IF ~g.isPlaying \/ g.isGameOver THEN g ELSE [g EXCEPT !.isPaused = ~@]

\* pause
pause(g) ==
    IF ~g.isPlaying \/ g.isGameOver THEN g ELSE [g EXCEPT !.isPaused = TRUE]

\* resume
resume(g) == [g EXCEPT !.isPaused = FALSE]

\* getGhostPosition: the row of the ghost piece
RECURSIVE GhostFrom(_, _)
GhostFrom(g, ghostY) ==
    IF isValidPosition(g.board, g.currentPiece.x, ghostY + 1,
                       g.currentPiece.shape)
    THEN GhostFrom(g, ghostY + 1)
    ELSE ghostY

GhostY(g) == GhostFrom(g, g.currentPiece.y)

\* a faulty getGhostPosition: the loop moves the active piece itself
getGhostPositionMovesPiece(g) ==
    IF g.currentPiece = NoPiece THEN [g |-> g, ghost |-> NoPiece]
    ELSE [g |-> [g EXCEPT !.currentPiece.y = GhostY(g)],
          ghost |-> [x |-> g.currentPiece.x, y |-> GhostY(g),
                     shape |-> g.currentPiece.shape,
                     color |-> g.currentPiece.color]]

\* getGhostPosition, as the pair of the Game afterwards and the value
\* returned
getGhostPosition(g) ==
    IF g.currentPiece = NoPiece THEN [g |-> g, ghost |-> NoPiece]
    ELSE [g |-> g,
          ghost |-> [x |-> g.currentPiece.x, y |-> GhostY(g),
                     shape |-> g.currentPiece.shape,
                     color |-> g.currentPiece.color]]

\* ------------------------------------------------------------ the game loop

\* a faulty gameLoop: the drop timer is not reset when it is due
gameLoopKeepsDropTimer(g, rnd) ==
    IF ~g.isPlaying \/ g.isGameOver THEN [g |-> g, again |-> FALSE]
    ELSE IF g.isPaused THEN [g |-> g, again |-> TRUE]
    ELSE LET dropSpeed == getDropSpeed(g) * Scale
             g1 == [g EXCEPT !.dropTimer = @ + FRAME_STEP,
                             !.restTime = IF CanMove(g, 0, 1) THEN 0
                                          ELSE @ + FRAME_STEP]
             g3 == [g1 EXCEPT !.lockTimer = @ + dropSpeed]
         IN  [g |-> IF g1.dropTimer >= dropSpeed
                    THEN IF ~CanMove(g1, 0, 1)
                         THEN IF g3.lockTimer >= LOCK_DELAY * Scale
                              THEN [lockPiece([g3 EXCEPT !.lockedAfter =
                                                             g3.restTime], rnd)
                                        EXCEPT !.restTime = 0]
                              ELSE g3
                         ELSE [moveDown(g1) EXCEPT !.lockTimer = 0,
                                                   !.restTime = 0]
                    ELSE g1,
              again |-> TRUE]

\* gameLoop: the Game afterwards, and whether the call reached the
\* requestAnimationFrame at its end
gameLoop(g, rnd) ==
    IF ~g.isPlaying \/ g.isGameOver THEN [g |-> g, again |-> FALSE]
    ELSE IF g.isPaused THEN [g |-> g, again |-> TRUE]
    ELSE LET dropSpeed == getDropSpeed(g) * Scale
             g1 == [g EXCEPT !.dropTimer = @ + FRAME_STEP,
                             !.restTime = IF CanMove(g, 0, 1) THEN 0
                                          ELSE @ + FRAME_STEP]
             g2 == [g1 EXCEPT !.dropTimer = 0]
             g3 == [g2 EXCEPT !.lockTimer = @ + dropSpeed]
         IN  [g |-> IF g1.dropTimer >= dropSpeed
                    THEN IF ~CanMove(g2, 0, 1)
                         THEN IF g3.lockTimer >= LOCK_DELAY * Scale
                              THEN [lockPiece([g3 EXCEPT !.lockedAfter =
                                                             g3.restTime], rnd)
                                        EXCEPT !.restTime = 0]
                              ELSE g3
                         ELSE [moveDown(g2) EXCEPT !.lockTimer = 0,
                                                   !.restTime = 0]
                    ELSE g1,
              again |-> TRUE]

\* one rendering frame: the n callbacks requestAnimationFrame holds run one
\* after the other; loops counts those that asked for the next frame
RECURSIVE RunLoops(_, _, _)
RunLoops(g, n, rnd) ==
    IF n = 0 THEN [g |-> g, loops |-> 0]
    ELSE LET one == gameLoop(g, rnd)
             rest == RunLoops(one.g, n - 1, rnd)
         IN  [g |-> rest.g,
              loops |-> rest.loops + (IF one.again THEN 1 ELSE 0)]

NewStats == [piecesPlaced |-> 0, tSpins |-> 0, maxCombo |-> 0]

\* the three pushes of startGame: this.nextPieces.push(this.getNextFromBag())
RECURSIVE FillQueue(_, _, _)
FillQueue(g, n, rnd) ==
    IF n = 0 THEN g
    ELSE LET d == getNextFromBag(g, rnd)
         IN  FillQueue([d.g EXCEPT !.nextPieces = Append(@, d.type)], n - 1, rnd)

\* a faulty startGame: the combo counter is left as it is
startGameKeepsCombo(g, rnd) ==
    LET reset == [g EXCEPT !.board = EmptyBoard, !.score = 0, !.level = 1,
                           !.lines = 0, !.isPlaying = TRUE,
                           !.isPaused = FALSE, !.isGameOver = FALSE,
                           !.holdPiece = "none", !.canHold = TRUE,
                           !.bag = << >>, !.bagDraws = << >>,
                           !.nextPieces = << >>, !.stats = NewStats]
    IN  spawnPiece(FillQueue(hideGameOverModal(reset), 3, rnd), rnd)

\* startGame, up to its call of gameLoop
startGame(g, rnd) ==
    LET reset == [g EXCEPT !.board = EmptyBoard, !.score = 0, !.level = 1,
                           !.lines = 0, !.combo = 0, !.isPlaying = TRUE,
                           !.isPaused = FALSE, !.isGameOver = FALSE,
                           !.holdPiece = "none", !.canHold = TRUE,
                           !.bag = << >>, !.bagDraws = << >>,
                           !.nextPieces = << >>, !.stats = NewStats]
    IN  spawnPiece(FillQueue(hideGameOverModal(reset), 3, rnd), rnd)

\* ---------------------------------------------------------------- Controls

\* the guard of handleMoveLeft, handleMoveRight, handleRotate, handleSoftDrop,
\* handleHardDrop and handleHold
Handles(g) == g.isPlaying /\ ~g.isPaused

\* --------------------------------------------------------------- bounds

\* operations per run
MaxSteps == 3
\* draws per run of the bag randomizer on its own
MaxDraws == 15

\* the outcomes of the six Math.random() calls of one refill that a run of
\* the game draws from: the same number six times
GameRandoms == {[i \in 1..6 |-> n] : n \in 0..(RandDen - 1)}

\* and those a run of the bag randomizer on its own draws from
BagRandoms == [1..6 -> 0..(RandDen - 1)]

Step == steps < MaxSteps /\ steps' = steps + 1

\* --------------------------------------------------------------- actions

\* the Start button of the start modal, and Enter once the game is over
StartGame ==
    /\ ~isPlaying
    /\ Step
    /\ \E rnd \in GameRandoms :
          LET first == gameLoop(startGame(G, rnd), rnd)
          IN  /\ SetG(first.g)
              /\ loops' = loops + (IF first.again THEN 1 ELSE 0)
    /\ UNCHANGED <<syncVars, controlVars, ret>>

\* the Play Again button of the game-over modal
PlayAgain ==
    /\ gameOverModal
    /\ Step
    /\ \E rnd \in GameRandoms :
          LET first == gameLoop(startGame(hideGameOverModal(G), rnd), rnd)
          IN  /\ SetG(first.g)
              /\ loops' = loops + (IF first.again THEN 1 ELSE 0)
    /\ UNCHANGED <<syncVars, controlVars, ret>>

\* a difficulty button of the start modal
SelectMode ==
    /\ ~isPlaying /\ ~isGameOver
    /\ Step
    /\ \E m \in GameModes : m # gameMode /\ SetG([G EXCEPT !.gameMode = m])
    /\ UNCHANGED <<syncVars, loops, controlVars, ret>>

\* the change event of the name field: an empty value gives 'Player'
NameValues == {"", "Ann"}

NameInput ==
    /\ Step
    /\ \E value \in NameValues :
          SetG([G EXCEPT !.playerName = IF value = "" THEN "Player" ELSE value])
    /\ UNCHANGED <<syncVars, loops, controlVars, ret>>

\* the Main Menu button of the game-over modal
MainMenu ==
    /\ gameOverModal
    /\ Step
    /\ SetG(hideGameOverModal(G))
    /\ UNCHANGED <<syncVars, loops, controlVars, ret>>

\* the promise of submitScore resolves, and a suspended gameOver goes on
SubmitResolves ==
    /\ awaiting > 0
    /\ SetG(gameOverResumed(G))
    /\ UNCHANGED <<syncVars, loops, controlVars, ret, steps>>

\* the promise of submitScore rejects
SubmitRejects ==
    /\ awaiting > 0
    /\ SetG(gameOverThrown(G))
    /\ UNCHANGED <<syncVars, loops, controlVars, ret, steps>>

\* a timeout set by gameOver fires
ModalTimeout ==
    /\ modalTimers > 0
    /\ SetG(showGameOverModal(G))
    /\ UNCHANGED <<syncVars, loops, controlVars, ret, steps>>

\* a rendering frame
Frame ==
    /\ loops > 0
    /\ Step
    /\ \E rnd \in GameRandoms :
          LET run == RunLoops(G, loops, rnd)
          IN  SetG(run.g) /\ loops' = run.loops
    /\ UNCHANGED <<syncVars, controlVars, ret>>

\* keydown ArrowLeft: handleMoveLeft, then startDAS('left')
KeyDownLeft ==
    /\ "ArrowLeft" \notin keys
    /\ Step
    /\ keys' = keys \cup {"ArrowLeft"}
    /\ SetG(IF Handles(G) THEN moveLeft(G) ELSE G)
    /\ dasTimer' = "left" /\ arrTimer' = "none"
    /\ UNCHANGED <<syncVars, loops, softDropTimer, ret>>

\* keydown ArrowRight: handleMoveRight, then startDAS('right')
KeyDownRight ==
    /\ "ArrowRight" \notin keys
    /\ Step
    /\ keys' = keys \cup {"ArrowRight"}
    /\ SetG(IF Handles(G) THEN moveRight(G) ELSE G)
    /\ dasTimer' = "right" /\ arrTimer' = "none"
    /\ UNCHANGED <<syncVars, loops, softDropTimer, ret>>

\* keydown ArrowDown: handleSoftDrop
KeyDownDown ==
    /\ "ArrowDown" \notin keys
    /\ Step
    /\ keys' = keys \cup {"ArrowDown"}
    /\ SetG(IF Handles(G) THEN moveDown(G) ELSE G)
    /\ softDropTimer' = (softDropTimer \/ Handles(G))
    /\ UNCHANGED <<syncVars, loops, dasTimer, arrTimer, ret>>

\* keyup of ArrowLeft or ArrowRight: stopDAS
KeyUpSide ==
    /\ Step
    /\ \E k \in keys \cap {"ArrowLeft", "ArrowRight"} : keys' = keys \ {k}
    /\ dasTimer' = "none" /\ arrTimer' = "none"
    /\ UNCHANGED <<syncVars, engineVars, loops, softDropTimer, ret>>

\* keyup of ArrowDown: stopSoftDrop
KeyUpDown ==
    /\ "ArrowDown" \in keys
    /\ Step
    /\ keys' = keys \ {"ArrowDown"}
    /\ softDropTimer' = FALSE
    /\ UNCHANGED <<syncVars, engineVars, loops, dasTimer, arrTimer, ret>>

\* the timeout of startDAS fires, 150 ms after the keydown: the ARR interval starts
DASFire ==
    /\ dasTimer # "none"
    /\ Step
    /\ arrTimer' = dasTimer /\ dasTimer' = "none"
    /\ UNCHANGED <<syncVars, engineVars, loops, keys, softDropTimer, ret>>

\* the ARR interval of startDAS fires
ARRFire ==
    /\ arrTimer # "none"
    /\ ~isPaused
    /\ Step
    /\ IF arrTimer = "left" /\ "ArrowLeft" \in keys
       THEN SetG(moveLeft(G)) /\ UNCHANGED <<dasTimer, arrTimer>>
       ELSE IF arrTimer = "right" /\ "ArrowRight" \in keys
       THEN SetG(moveRight(G)) /\ UNCHANGED <<dasTimer, arrTimer>>
       ELSE UNCHANGED engineVars /\ dasTimer' = "none" /\ arrTimer' = "none"
    /\ UNCHANGED <<syncVars, loops, keys, softDropTimer, ret>>

\* the interval of handleSoftDrop fires
SoftDropFire ==
    /\ softDropTimer
    /\ "ArrowDown" \in keys /\ ~isPaused
    /\ Step
    /\ SetG(moveDown(G))
    /\ UNCHANGED <<syncVars, loops, controlVars, ret>>

\* keydown ArrowUp (clockwise) or z (counter-clockwise): handleRotate
KeyRotate ==
    /\ Step
    /\ \E clockwise \in BOOLEAN :
          SetG(IF Handles(G) THEN rotate(G, clockwise) ELSE G)
    /\ UNCHANGED <<syncVars, loops, controlVars, ret>>

\* keydown Space: handleHardDrop
KeyHardDrop ==
    /\ Step
    /\ \E rnd \in GameRandoms :
          SetG(IF Handles(G) THEN hardDrop(G, rnd) ELSE G)
    /\ UNCHANGED <<syncVars, loops, controlVars, ret>>

\* keydown c: handleHold
KeyHold ==
    /\ Step
    /\ \E rnd \in GameRandoms :
          SetG(IF Handles(G) THEN hold(G, rnd) ELSE G)
    /\ UNCHANGED <<syncVars, loops, controlVars, ret>>

\* keydown Escape: handlePause
KeyPause ==
    /\ Step
    /\ SetG(IF ~isPlaying THEN G ELSE IF isPaused THEN resume(G) ELSE pause(G))
    /\ UNCHANGED <<syncVars, loops, controlVars, ret>>

\* ------------------------------------------------------- JSONICServerClient

maxReconnectAttempts == 3
reconnectDelay == 2000

\* The client after its constructor.  ws is the state of the WebSocket in
\* this.ws; heads and healths count the calls of connect and of
\* fallbackToHttp that await their fetch; connectTimeout tells whether the
\* 5 s timeout of connect is set; reconnectTimers holds the delays of the
\* timeouts set by handleDisconnect; disconnected tells whether disconnect()
\* has been called.
NewClient ==
    [ws |-> "none", connected |-> FALSE, reconnectAttempts |-> 0,
     mockMode |-> FALSE, heads |-> 0, healths |-> 0,
     connectTimeout |-> FALSE, reconnectTimers |-> << >>,
     disconnected |-> FALSE]

RECURSIVE Pow2(_)
Pow2(n) == IF n = 0 THEN 1 ELSE 2 * Pow2(n - 1)

\* enableMockMode
enableMockMode(c) == [c EXCEPT !.mockMode = TRUE, !.connected = FALSE]

\* fallbackToHttp, up to its await
fallbackToHttp(c) == [c EXCEPT !.connected = FALSE, !.healths = @ + 1]

\* fallbackToHttp from its await on: the health check answers, or fails
healthOk(c) == [c EXCEPT !.healths = @ - 1]
healthFailed(c) == enableMockMode([c EXCEPT !.healths = @ - 1])

\* connect, up to its await
connect(c) == [c EXCEPT !.heads = @ + 1]

\* connect from its await on: the server is not there, or it is and the
\* WebSocket is created and the timeout set
headFailed(c) == enableMockMode([c EXCEPT !.heads = @ - 1])
headOk(c) ==
    [c EXCEPT !.heads = @ - 1, !.ws = "connecting", !.connectTimeout = TRUE]

\* the timeout of connect: this.ws?.close() and fallbackToHttp()
connectTimedOut(c) ==
    fallbackToHttp([c EXCEPT !.connectTimeout = FALSE,
                             !.ws = IF @ \in {"connecting", "open"}
                                    THEN "closing" ELSE @])

\* ws.onopen
onopen(c) ==
    [c EXCEPT !.connectTimeout = FALSE, !.connected = TRUE,
              !.reconnectAttempts = 0, !.mockMode = FALSE, !.ws = "open"]

\* ws.onerror; the socket closes next
onerror(c) ==
    fallbackToHttp([c EXCEPT !.connectTimeout = FALSE, !.ws = "failing"])

\* a faulty handleDisconnect: the attempts are not counted
handleDisconnectUncounted(c) ==
    IF c.reconnectAttempts < maxReconnectAttempts
    THEN [c EXCEPT !.reconnectTimers =
                       Append(@, reconnectDelay * Pow2(c.reconnectAttempts))]
    ELSE enableMockMode(c)

\* handleDisconnect
handleDisconnect(c) ==
    IF c.reconnectAttempts < maxReconnectAttempts
    THEN [c EXCEPT !.reconnectAttempts = @ + 1,
                   !.reconnectTimers =
                       Append(@, reconnectDelay * Pow2(c.reconnectAttempts))]
    ELSE enableMockMode(c)

\* ws.onclose
onclose(c) == handleDisconnect([c EXCEPT !.connected = FALSE, !.ws = "closed"])

\* the timeout set by handleDisconnect
reconnect(c) == connect([c EXCEPT !.reconnectTimers = Tail(@)])

\* disconnect: close() on the socket in this.ws, whose close event is still
\* to come unless it has come already, and this.ws = null; the handlers of
\* the socket, the timeout of connect and the timeouts of handleDisconnect
\* are left as they are
disconnect(c) ==
    [c EXCEPT !.ws = IF @ \in {"connecting", "open", "failing", "closing"}
                     THEN "closing" ELSE "none",
              !.connected = FALSE, !.mockMode = FALSE, !.disconnected = TRUE]

\* ------------------------------------------------------- HighscoreManager

\* no score entry, and no result
NoEntry == [timestamp |-> 0]

\* The HighscoreManager after its constructor, with the stores that outlive
\* it.  db tells whether this.db is set and hasClient whether
\* this.serverClient is; scores is the JSONIC database and jetrix_scores
\* the localStorage item; sent holds the entries that went to the server;
\* entry is the highscoreEntry of the call of submitScore under way, at is
\* the await the call is suspended at, result is what the last call
\* returned, and now is the last timestamp given.  beaten holds the
\* timestamps of the scores that did not exceed the best of the store
\* submitScore looks the personal best up in.
NewHighscores ==
    [db |-> FALSE, hasClient |-> FALSE, scores |-> {}, jetrix_scores |-> {},
     sent |-> {}, entry |-> NoEntry, at |-> "idle", result |-> NoEntry,
     now |-> 0, beaten |-> {}]

\* the scores of a store in a game mode
ModeScores(store, mode) ==
    {e.score : e \in {d \in store : d.gameMode = mode}}

\* getRank, and the rank that submitScoreFallback finds
RankIn(store, points, mode) ==
    Cardinality({e \in store : e.gameMode = mode /\ e.score > points}) + 1

\* submitScoreFallback: the score is pushed whatever it is (the list holds
\* fewer than 100 scores)
submitScoreFallback(h, e) ==
    [h EXCEPT !.jetrix_scores = @ \cup {e}, !.entry = NoEntry, !.at = "idle",
              !.result = [timestamp |-> e.timestamp,
                          isHighscore |->
                              RankIn(h.jetrix_scores, e.score, e.gameMode) <= 100,
                          rank |-> RankIn(h.jetrix_scores, e.score, e.gameMode)]]

\* submitScore up to the insertion: the personal best is looked up, in the
\* database or by getPersonalBestFallback
submitScore(h, points, mode) ==
    LET e == [score |-> points, gameMode |-> mode, timestamp |-> h.now + 1]
        best == ModeScores(IF h.db THEN h.scores ELSE h.jetrix_scores, mode)
        isBest == \A s \in best : points > s
        g == [h EXCEPT !.now = @ + 1,
                       !.beaten = IF isBest THEN @ ELSE @ \cup {e.timestamp}]
    IN  IF ~h.db THEN submitScoreFallback(g, e)
        ELSE IF isBest THEN [g EXCEPT !.entry = e, !.at = "insertScore"]
        ELSE [g EXCEPT !.result = [timestamp |-> e.timestamp,
                                   isHighscore |-> FALSE, rank |-> 0]]

\* submitScore from the await of db.insertScore on: the entry is in the
\* database, or the call has thrown and the catch block takes over
submitScoreInserted(h, ok) ==
    IF ~ok THEN submitScoreFallback(h, h.entry)
    ELSE [h EXCEPT !.scores = @ \cup {h.entry},
                   !.at = IF h.hasClient THEN "serverClient" ELSE "getRank"]

\* a faulty continuation: a score the server did not take is withdrawn
submitScoreSyncedWithdraws(h, c, outcome) ==
    [h EXCEPT !.sent = IF outcome = "delivered" /\ ~c.mockMode
                       THEN @ \cup {h.entry} ELSE @,
              !.scores = IF outcome = "delivered" THEN @ ELSE @ \ {h.entry},
              !.at = "getRank"]

\* submitScore from the await of serverClient.submitScore on, whatever came
\* of it: delivered, failed or timed out (the client then answers from its
\* mock scores, and an exception is caught)
submitScoreSynced(h, c, outcome) ==
    [h EXCEPT !.sent = IF outcome = "delivered" /\ ~c.mockMode
                       THEN @ \cup {h.entry} ELSE @,
              !.at = "getRank"]

\* submitScore from the await of getRank on, to its return
submitScoreRanked(h) ==
    [h EXCEPT !.result = [timestamp |-> h.entry.timestamp, isHighscore |-> TRUE,
                          rank |-> RankIn(h.scores, h.entry.score,
                                          h.entry.gameMode)],
              !.entry = NoEntry, !.at = "idle"]

\* syncExistingScoresToServer: the legacy scores go into the database, and
\* every score of both stores to the client
syncExistingScoresToServer(h, c, outcome) ==
    IF ~h.hasClient THEN h
    ELSE LET localScores == IF h.db THEN h.scores ELSE {}
             allScores == localScores \cup h.jetrix_scores
         IN  [h EXCEPT !.scores = IF h.db THEN allScores ELSE @,
                       !.sent = IF outcome = "delivered" /\ ~c.mockMode
                                THEN @ \cup allScores ELSE @]

\* the clients that connect() leaves when its promise settles: the socket
\* open, the HTTP API after an error, and mock mode
SettledClients ==
    {onopen(headOk(connect(NewClient))),
     healthOk(onerror(headOk(connect(NewClient)))),
     headFailed(connect(NewClient))}

\* initialize on a page load: the database is created or not, and with it
\* the client is made or not, and the stored scores are synced
initialize(h, dbOk, clientOk, c, outcome) ==
    syncExistingScoresToServer(
        [h EXCEPT !.db = dbOk, !.hasClient = dbOk /\ clientOk,
                  !.entry = NoEntry, !.at = "idle", !.result = NoEntry],
        c, outcome)

\* what becomes of a submission to the server
Outcomes == {"delivered", "failed", "timeout"}

\* scores per run, and the values they take
MaxScores == 2
ScoreValues == {100, 200}

\* Game.gameOver hands a record to submitScore
SubmitScore ==
    /\ highscores.at = "idle"
    /\ highscores.now < MaxScores
    /\ \E points \in ScoreValues, mode \in {"normal", "hard"} :
          highscores' = submitScore(highscores, points, mode)
    /\ UNCHANGED <<engineVars, loops, controlVars, serverClient, ret, steps>>

InsertSettles ==
    /\ highscores.at = "insertScore"
    /\ \E ok \in BOOLEAN : highscores' = submitScoreInserted(highscores, ok)
    /\ UNCHANGED <<engineVars, loops, controlVars, serverClient, ret, steps>>

ServerSettles ==
    /\ highscores.at = "serverClient"
    /\ \E outcome \in Outcomes :
          highscores' = submitScoreSynced(highscores, serverClient, outcome)
    /\ UNCHANGED <<engineVars, loops, controlVars, serverClient, ret, steps>>

RankSettles ==
    /\ highscores.at = "getRank"
    /\ highscores' = submitScoreRanked(highscores)
    /\ UNCHANGED <<engineVars, loops, controlVars, serverClient, ret, steps>>

\* the page is loaded again
PageLoad ==
    /\ \E dbOk \in BOOLEAN, clientOk \in BOOLEAN, c \in SettledClients,
          outcome \in Outcomes :
          /\ highscores' = initialize(highscores, dbOk, clientOk, c, outcome)
          /\ serverClient' = c
    /\ UNCHANGED <<engineVars, loops, controlVars, ret, steps>>


\* fallbackToHttp calls awaiting their fetch at one time, per run
MaxHealths == 2

HeadFails ==
    /\ serverClient.heads > 0
    /\ serverClient' = headFailed(serverClient)
    /\ UNCHANGED <<engineVars, loops, controlVars, highscores, ret, steps>>

HeadAnswers ==
    /\ serverClient.heads > 0
    /\ serverClient' = headOk(serverClient)
    /\ UNCHANGED <<engineVars, loops, controlVars, highscores, ret, steps>>

HealthFails ==
    /\ serverClient.healths > 0
    /\ serverClient' = healthFailed(serverClient)
    /\ UNCHANGED <<engineVars, loops, controlVars, highscores, ret, steps>>

HealthAnswers ==
    /\ serverClient.healths > 0
    /\ serverClient' = healthOk(serverClient)
    /\ UNCHANGED <<engineVars, loops, controlVars, highscores, ret, steps>>

ConnectTimeout ==
    /\ serverClient.connectTimeout
    /\ serverClient.healths < MaxHealths
    /\ serverClient' = connectTimedOut(serverClient)
    /\ UNCHANGED <<engineVars, loops, controlVars, highscores, ret, steps>>

WsOpen ==
    /\ serverClient.ws = "connecting"
    /\ serverClient' = onopen(serverClient)
    /\ UNCHANGED <<engineVars, loops, controlVars, highscores, ret, steps>>

WsError ==
    /\ serverClient.ws \in {"connecting", "open"}
    /\ serverClient.healths < MaxHealths
    /\ serverClient' = onerror(serverClient)
    /\ UNCHANGED <<engineVars, loops, controlVars, highscores, ret, steps>>

\* the close event: of an open socket, or after an error or a close() call
WsClose ==
    /\ serverClient.ws \in {"open", "failing", "closing"}
    /\ serverClient' = onclose(serverClient)
    /\ UNCHANGED <<engineVars, loops, controlVars, highscores, ret, steps>>

ReconnectFire ==
    /\ serverClient.reconnectTimers # << >>
    /\ serverClient' = reconnect(serverClient)
    /\ UNCHANGED <<engineVars, loops, controlVars, highscores, ret, steps>>

\* the page calls disconnect()
Disconnect ==
    /\ ~serverClient.disconnected
    /\ serverClient' = disconnect(serverClient)
    /\ UNCHANGED <<engineVars, loops, controlVars, highscores, ret, steps>>

\* ----------------------------------------------------------------- sessions

\* The Game after the constructor and initialize(): not started.
NewGame ==
    [board |-> EmptyBoard, currentPiece |-> NoPiece, nextPieces |-> << >>,
     holdPiece |-> "none", canHold |-> TRUE, score |-> 0, level |-> 1,
     lines |-> 0, combo |-> 0, gameMode |-> "normal", isPlaying |-> FALSE,
     isPaused |-> FALSE, isGameOver |-> FALSE, dropTimer |-> 0,
     lockTimer |-> 0, bag |-> << >>, stats |-> NewStats,
     playerName |-> "Player", submitted |-> << >>, awaiting |-> 0,
     modalTimers |-> 0, gameOverModal |-> FALSE, restTime |-> 0,
     lockedAfter |-> -1, bagDraws |-> << >>]

\* Controls after its constructor: no key held, no timer running.
NewControls ==
    [keys |-> {}, dasTimer |-> "none", arrTimer |-> "none",
     softDropTimer |-> FALSE]

\* A stack of locked cells given by the height of each column.
StackColor == TETROMINOS["J"].color

ColumnBoard(h) ==
    [r \in 1..BOARD_HEIGHT |->
        [c \in 1..BOARD_WIDTH |->
            IF r > BOARD_HEIGHT - h[c] THEN StackColor ELSE 0]]

\* board with the cell of 0-based row y and column x set to v
WithCell(b, x, y, v) == [b EXCEPT ![y + 1][x + 1] = v]

\* A session in play: the board, the active piece, the queue, the bag and
\* the draws of the current block, and the counters.  level follows lines as
\* clearLines keeps it; the loop is running.
InPlay(b, piece, queue, bagLeft, drawn, held, nLines, nCombo, placed, pts) ==
    [NewGame EXCEPT !.board = b, !.currentPiece = piece, !.nextPieces = queue,
                    !.bag = bagLeft, !.bagDraws = drawn, !.holdPiece = held,
                    !.lines = nLines, !.level = (nLines \div 10) + 1,
                    !.combo = nCombo, !.score = pts, !.isPlaying = TRUE,
                    !.stats = [piecesPlaced |-> placed, tSpins |-> 0,
                               maxCombo |-> Max(nCombo, 1)]]

\* the active piece of the given type after `turns` clockwise rotations, at (x, y)
RECURSIVE Turned(_, _)
Turned(shape, turns) ==
    IF turns = 0 THEN shape ELSE Turned(rotateMatrix(shape, TRUE), turns - 1)

PieceAt(type, turns, x, y) ==
    [NewPiece(type) EXCEPT !.shape = Turned(@, turns), !.rotation = turns,
                           !.x = x, !.y = y]

\* Four rows complete but for the last column, and a vertical I above it.
WellBoard == ColumnBoard(<<4, 4, 4, 4, 4, 4, 4, 4, 4, 0>>)

\* The same cell count, with a hole in the third row from the floor.
WellBoardHole ==
    WithCell(WithCell(WellBoard, 0, 17, 0), 0, 15, StackColor)

WellSessions ==
    {InPlay(b, PieceAt("I", 1, 7, 10), <<"T", "O", "S">>, t.bagLeft, t.drawn,
            "none", t.nLines, c, t.placed, 4000) :
        b \in {WellBoard, WellBoardHole},
        c \in {0, 1},
        t \in {[nLines |-> 8, placed |-> 29, bagLeft |-> <<"J", "L">>,
                drawn |-> <<"Z", "I", "T", "O", "S">>],
               [nLines |-> 20, placed |-> 59, bagLeft |-> << >>,
                drawn |-> <<"Z", "J", "L", "I", "T", "O", "S">>]}}

\* The floor row complete but for the last two columns, and an O above them:
\* one line at 9 lines, or two lines at 18.
SingleBoard == ColumnBoard(<<1, 3, 3, 3, 2, 2, 2, 2, 0, 0>>)
DoubleBoard == ColumnBoard(<<2, 2, 2, 2, 2, 2, 2, 2, 0, 0>>)

\* the drop timer one frame before gravity acts: the largest multiple of the
\* frame step below the drop speed
Due(g) == [g EXCEPT !.dropTimer =
              ((getDropSpeed(g) * Scale - 1) \div FRAME_STEP) * FRAME_STEP]

\* the O in the air, and at rest on the floor with gravity due
PitSessions ==
    {InPlay(SingleBoard, PieceAt("O", 0, 8, 5), <<"T", "I", "S">>,
            <<"Z", "J", "L", "O">>, <<"T", "I", "S">>, "none", 9, 0, 27, 1500),
     Due(InPlay(SingleBoard, PieceAt("O", 0, 8, 18), <<"T", "I", "S">>,
            <<"Z", "J", "L", "O">>, <<"T", "I", "S">>, "none", 9, 0, 27, 1500)),
     Due(InPlay(DoubleBoard, PieceAt("O", 0, 8, 5), <<"T", "I", "S">>,
            <<"Z", "J", "L">>, <<"O", "T", "I", "S">>, "none", 18, 1, 49, 3000))}

\* A stack two rows below the top under the right half of the board: an I
\* moved two columns to the right rests on it in row 1, ArrowDown held.
HighBoard == ColumnBoard(<<0, 0, 0, 0, 0, 0, 18, 18, 18, 18>>)

HighSession ==
    [g |-> InPlay(HighBoard, PieceAt("I", 0, 5, 0), <<"T", "O", "S">>,
                  <<"Z", "J", "L">>, <<"I", "T", "O", "S">>, "none",
                  4, 0, 28, 2000),
     loops |-> 1,
     c |-> [NewControls EXCEPT !.keys = {"ArrowDown"}, !.softDropTimer = TRUE]]

\* The same stack one row higher, a fresh O, and an I in the hold slot.
TopBoard == ColumnBoard(<<0, 0, 0, 0, 0, 0, 19, 19, 19, 19>>)

TopSession ==
    [g |-> InPlay(TopBoard, NewPiece("O"), <<"T", "S", "J">>, <<"Z">>,
                  <<"I", "L", "O", "T", "S", "J">>, "I", 4, 0, 29, 2000),
     loops |-> 1, c |-> NewControls]

\* Level 7, where the drop speed is below the lock delay: the O at rest in the
\* pit after one gravity tick has failed, the next one due.
LateSession ==
    LET g == InPlay(SingleBoard, PieceAt("O", 0, 8, 18), <<"T", "I", "S">>,
                    <<"L">>, <<"Z", "J", "O", "T", "I", "S">>, "none",
                    69, 0, 177, 30000)
    IN  [g |-> Due([g EXCEPT !.lockTimer = getDropSpeed(g) * Scale]),
         loops |-> 1, c |-> NewControls]

\* Level 7 again: the floor row complete but for column 5, a wall three rows
\* high to the right of it, and a T at rest to the left of the gap after one
\* gravity tick has failed. A counter-clockwise rotation does not fit where
\* the T is nor one column to the left, and the second wall kick takes it
\* into the gap.
SlotBoard == ColumnBoard(<<1, 1, 1, 1, 1, 0, 3, 3, 3, 3>>)

SlotSession ==
    LET g == InPlay(SlotBoard, PieceAt("T", 0, 3, 17), <<"O", "I", "S">>,
                    <<"L">>, <<"Z", "J", "T", "O", "I", "S">>, "none",
                    69, 0, 177, 30000)
    IN  [g |-> [g EXCEPT !.lockTimer = getDropSpeed(g) * Scale,
                         !.dropTimer = 20 * FRAME_STEP],
         loops |-> 1, c |-> NewControls]

\* The stack of TopSession with a T at rest on it, one row of its box above
\* the board, where a wall kick has taken it.
OverSession ==
    [g |-> InPlay(TopBoard, PieceAt("T", 0, 6, 0 - 1), <<"O", "S", "J">>,
                  <<"Z">>, <<"I", "L", "T", "O", "S", "J">>, "none",
                  4, 0, 29, 2000),
     loops |-> 1, c |-> NewControls]

\* The sessions a run starts from: the one just constructed, and sessions
\* that play has brought to a stack the pieces of a short run cannot build.
Sessions ==
    {[g |-> NewGame, loops |-> 0, c |-> NewControls]}
    \cup {[g |-> g, loops |-> 1, c |-> NewControls] :
            g \in WellSessions \cup PitSessions}
    \cup {HighSession, [HighSession EXCEPT !.g = Due(@)], TopSession,
          LateSession, SlotSession, OverSession}

InitGame(s) ==
    /\ board = s.g.board
    /\ currentPiece = s.g.currentPiece
    /\ nextPieces = s.g.nextPieces
    /\ holdPiece = s.g.holdPiece
    /\ canHold = s.g.canHold
    /\ score = s.g.score
    /\ level = s.g.level
    /\ lines = s.g.lines
    /\ combo = s.g.combo
    /\ gameMode = s.g.gameMode
    /\ isPlaying = s.g.isPlaying
    /\ isPaused = s.g.isPaused
    /\ isGameOver = s.g.isGameOver
    /\ dropTimer = s.g.dropTimer
    /\ lockTimer = s.g.lockTimer
    /\ bag = s.g.bag
    /\ stats = s.g.stats
    /\ playerName = s.g.playerName
    /\ submitted = s.g.submitted
    /\ awaiting = s.g.awaiting
    /\ modalTimers = s.g.modalTimers
    /\ gameOverModal = s.g.gameOverModal
    /\ restTime = IF s.g.currentPiece # NoPiece /\ ~CanMove(s.g, 0, 1)
                  THEN s.g.dropTimer + s.g.lockTimer ELSE 0
    /\ lockedAfter = s.g.lockedAfter
    /\ bagDraws = s.g.bagDraws
    /\ loops = s.loops
    /\ keys = s.c.keys
    /\ dasTimer = s.c.dasTimer
    /\ arrTimer = s.c.arrTimer
    /\ softDropTimer = s.c.softDropTimer
    /\ ret = -1
    /\ steps = 0

\* a session, when initialize() has found no server and no stored score
InitFrom(s) ==
    /\ InitGame(s)
    /\ serverClient = enableMockMode(NewClient)
    /\ highscores = NewHighscores

Init == \E s \in Sessions : InitFrom(s)

Next ==
    \/ StartGame
    \/ PlayAgain
    \/ SelectMode
    \/ Frame
    \/ KeyDownLeft
    \/ KeyDownRight
    \/ KeyDownDown
    \/ KeyUpSide
    \/ KeyUpDown
    \/ DASFire
    \/ ARRFire
    \/ SoftDropFire
    \/ KeyRotate
    \/ KeyHardDrop
    \/ KeyHold
    \/ KeyPause
    \/ NameInput
    \/ MainMenu
    \/ SubmitResolves
    \/ SubmitRejects
    \/ ModalTimeout

Spec == Init /\ [][Next]_vars

\* timeouts fire
SpecLive == Spec /\ WF_vars(ModalTimeout)

\* ------------------------------------------- isValidPosition on its own

\* how far outside the board the probed anchors go
ProbeMargin == 2

ProbeBoards == {EmptyBoard, WellBoardHole, HighBoard}

\* a session in play on board b with no call made yet
Probing(b) ==
    [g |-> [NewGame EXCEPT !.board = b, !.isPlaying = TRUE],
     loops |-> 1, c |-> NewControls]

InitValid == \E b \in ProbeBoards : InitFrom(Probing(b))

\* one call isValidPosition(x, y, shape), the arguments kept in currentPiece
\* and the result in ret: 1 for true, 0 for false
ProbeValid ==
    /\ ret = -1
    /\ \E type \in PieceTypes, turns \in 0..3,
          x \in (0 - ProbeMargin)..(BOARD_WIDTH - 1 + ProbeMargin),
          y \in (0 - ProbeMargin)..(BOARD_HEIGHT - 1 + ProbeMargin) :
          /\ currentPiece' = PieceAt(type, turns, x, y)
          /\ ret' = IF isValidPosition(board, x, y, currentPiece'.shape)
                    THEN 1 ELSE 0
    /\ UNCHANGED <<syncVars, board, nextPieces, holdPiece, canHold, score, level, lines,
                   combo, gameMode, isPlaying, isPaused, isGameOver, dropTimer,
                   lockTimer, bag, stats, playerName, submitted, awaiting,
                   modalTimers, gameOverModal, restTime, lockedAfter,
                   bagDraws, loops, controlVars, steps>>

NextValid == ProbeValid

SpecValid == InitValid /\ [][NextValid]_vars

\* ------------------------------------------------ clearLines on its own

\* rows below and rows above the four rows a piece spans
MaxBelow == 2
MaxAbove == 2

FullRow == [c \in 1..BOARD_WIDTH |-> StackColor]

\* a row filled but for column k (1-based)
GapRow(k) == [c \in 1..BOARD_WIDTH |-> IF c = k THEN 0 ELSE StackColor]

\* The board as lockPiece hands it to clearLines: `below` rows on the floor;
\* on them the four rows the locked piece spans, the w-th complete when
\* full[w]; on them `above` rows; the rest empty.  A row that is not complete
\* has one gap, in a column that tells its height.
ClearBoard(below, above, full) ==
    [r \in 1..BOARD_HEIGHT |->
        LET up == BOARD_HEIGHT - r
        IN  IF up >= below + 4 + above THEN EmptyRow
            ELSE IF up >= below /\ up < below + 4 /\ full[up - below + 1]
            THEN FullRow
            ELSE GapRow((up % BOARD_WIDTH) + 1)]

ClearBoards ==
    {ClearBoard(below, above, full) :
        below \in 0..MaxBelow, above \in 0..MaxAbove,
        full \in [1..4 -> BOOLEAN]}

InitClear == \E b \in ClearBoards : InitFrom(Probing(b))

\* one call of clearLines, its result in ret
CallClearLines ==
    /\ ret = -1
    /\ SetG(clearLines(G))
    /\ ret' = LinesCleared(G)
    /\ UNCHANGED <<syncVars, loops, controlVars, steps>>

NextClear == CallClearLines

SpecClear == InitClear /\ [][NextClear]_vars

\* ---------------------------------------------------- rotate on its own

\* rotations per run
MaxTurns == 4

\* the rows at which a run finds the piece
TurnRows == {0, 14, 16, 17}

\* a session in play on board b with the piece as spawned moved to (x, y)
Turning(b, type, x, y) ==
    [g |-> [NewGame EXCEPT !.board = b, !.isPlaying = TRUE,
                           !.currentPiece = PieceAt(type, 0, x, y),
                           !.nextPieces = <<"T", "O", "S">>],
     loops |-> 1, c |-> NewControls]

InitTurn ==
    \E b \in {EmptyBoard, WellBoardHole}, type \in PieceTypes,
       x \in (0 - 2)..(BOARD_WIDTH - 1), y \in TurnRows :
        /\ isValidPosition(b, x, y, TETROMINOS[type].shape)
        /\ InitFrom(Turning(b, type, x, y))

\* one call of rotate
Turn ==
    /\ steps < MaxTurns
    /\ steps' = steps + 1
    /\ \E clockwise \in BOOLEAN : SetG(rotate(G, clockwise))
    /\ UNCHANGED <<syncVars, loops, controlVars, ret>>

NextTurn == Turn

SpecTurn == InitTurn /\ [][NextTurn]_vars

\* ------------------------------------------------ getDropSpeed on its own

\* the highest level a run looks at
MaxLevel == 30

\* the type of the i-th draw since startGame when every refill gives the
\* draws in the order of BagOrder
DrawType(i) == BagOrder[((i - 1) % Len(BagOrder)) + 1]

\* A session of the given mode that has just reached level n on an empty
\* board: 10 (n - 1) lines cleared by 25 (n - 1) pieces, four more drawn.
AtLevel(mode, n) ==
    LET placed == 25 * (n - 1)
        inBlock == ((placed + 3) % Len(BagOrder)) + 1
        g == InPlay(EmptyBoard, NewPiece(DrawType(placed + 1)),
                    [i \in 1..3 |-> DrawType(placed + 1 + i)],
                    [j \in 1..(Len(BagOrder) - inBlock) |->
                        BagOrder[Len(BagOrder) + 1 - j]],
                    SubSeq(BagOrder, 1, inBlock), "none",
                    10 * (n - 1), 0, placed, 100 * (n - 1))
    IN  [g |-> [g EXCEPT !.gameMode = mode, !.stats.maxCombo = 0],
         loops |-> 1, c |-> NewControls]

InitSpeed ==
    \E mode \in GameModes, n \in 1..MaxLevel : InitFrom(AtLevel(mode, n))

\* one call of getDropSpeed
ProbeSpeed ==
    /\ ret = -1
    /\ ret' = getDropSpeed(G)
    /\ UNCHANGED <<syncVars, engineVars, loops, controlVars, steps>>

NextSpeed == ProbeSpeed

SpecSpeed == InitSpeed /\ [][NextSpeed]_vars

\* ------------------------------------------- the sync client on its own

\* HighscoreManager.initialize has made the client and called connect()
InitSync ==
    /\ InitGame([g |-> NewGame, loops |-> 0, c |-> NewControls])
    /\ serverClient = connect(NewClient)
    /\ highscores = NewHighscores

NextSync ==
    \/ HeadFails
    \/ HeadAnswers
    \/ HealthFails
    \/ HealthAnswers
    \/ ConnectTimeout
    \/ WsOpen
    \/ WsError
    \/ WsClose
    \/ ReconnectFire
    \/ Disconnect

SpecSync == InitSync /\ [][NextSync]_vars

\* ----------------------------------------- the highscore manager on its own

\* the first page load, with no score stored
InitScores ==
    /\ InitGame([g |-> NewGame, loops |-> 0, c |-> NewControls])
    /\ \E dbOk \in BOOLEAN, clientOk \in BOOLEAN, c \in SettledClients :
          /\ highscores = initialize(NewHighscores, dbOk, clientOk, c, "failed")
          /\ serverClient = c

NextScores ==
    \/ SubmitScore
    \/ InsertSettles
    \/ ServerSettles
    \/ RankSettles
    \/ PageLoad

SpecScores == InitScores /\ [][NextScores]_vars

\* ------------------------------------------- the bag randomizer on its own

\* the session as startGame leaves it before its first draw
InitBag == InitFrom(Probing(EmptyBoard))

\* one call of getNextFromBag
Draw ==
    /\ steps < MaxDraws
    /\ steps' = steps + 1
    /\ \E rnd \in BagRandoms : SetG(getNextFromBag(G, rnd).g)
    /\ UNCHANGED <<syncVars, loops, controlVars, ret>>

NextBag == Draw

SpecBag == InitBag /\ [][NextBag]_vars

\* ------------------------------------------------------------------ claims

\* the session is Playing or Paused
Active == isPlaying /\ ~isGameOver

\* every filled cell of piece p lies in a column of the board, above the floor
\* and, from row 0 on, on an empty cell of board b
PieceFits(b, p) ==
    \A r \in 1..Len(p.shape) : \A c \in 1..Len(p.shape) :
        p.shape[r][c] # 0 =>
            /\ p.x + c - 1 >= 0 /\ p.x + c - 1 < BOARD_WIDTH
            /\ p.y + r - 1 < BOARD_HEIGHT
            /\ (p.y + r - 1 >= 0 => b[p.y + r][p.x + c] = 0)

\* the step locked a piece
Locked == stats'.piecesPlaced = stats.piecesPlaced + 1

\* the step drew from the bag: spawnPiece ran
Spawned == bagDraws' # bagDraws

\* C1: while the session is Playing or Paused, every filled cell of the active
\* piece is in a column of the board, above the floor, and on no locked cell.
C1_ActivePieceFits ==
    (Active /\ currentPiece # NoPiece) => PieceFits(board, currentPiece)

\* C2, as the engine computes it: a lock that clears n lines adds
\* base(n) * level + 50 * c to the score on top of the hard-drop points,
\* with the level as the clear leaves it and c the combo counter before it is
\* incremented for this clear; the counter then goes up by one.
C2_LockScoreComboBefore ==
    [][(Locked /\ lines' > lines) =>
          /\ score' - score =
                 POINTS_HARD_DROP * DropDistance(G, 0)
                 + BasePoints(lines' - lines) * level'
                 + COMBO_MULTIPLIER * combo
          /\ combo' = combo + 1]_vars

\* C2, as stated: the bonus is 50 times the combo counter after its increment.
C2_LockScoreComboAfter ==
    [][(Locked /\ lines' > lines) =>
          score' - score =
              POINTS_HARD_DROP * DropDistance(G, 0)
              + BasePoints(lines' - lines) * level'
              + COMBO_MULTIPLIER * combo']_vars

\* a hard drop of six rows has cleared four lines at level 3 with the combo
\* counter reaching 2: 12 + 800 * 3 + 50 * 1 on top of 4000
C2_TetrisAtLevel3 ==
    /\ stats.piecesPlaced = 60 /\ lines = 24 /\ level = 3 /\ combo = 2
    /\ score = 4000 + 12 + 2450

\* C3: once the game is over and until startGame, no step changes the board,
\* the active piece, the score, the level, the lines or the stats.
C3_GameOverFrozen ==
    [][(isGameOver /\ isGameOver') =>
          UNCHANGED <<board, currentPiece, score, level, lines, stats>>]_vars

\* C4: at most one gameLoop callback is pending at any time.
C4_OneLoop == loops <= 1

\* C5: a step sets isGameOver only by a spawn whose piece does not fit, and a
\* spawn whose piece does not fit sets it.
C5_GameOverIffSpawnBlocked ==
    [][/\ (~isGameOver /\ isGameOver') =>
              (Spawned /\ currentPiece' = NewPiece(currentPiece'.type)
                       /\ ~PieceFits(board', currentPiece'))
       /\ Spawned => (isGameOver' <=> ~PieceFits(board', currentPiece'))]_vars

\* the game is over with the spawned piece on a locked cell
C5_SpawnBlocked ==
    /\ isGameOver /\ ~isPlaying
    /\ currentPiece = NewPiece(currentPiece.type)
    /\ ~PieceFits(board, currentPiece)

\* C8: the board has 20 rows of 10 cells.
C8_BoardDimensions ==
    /\ Len(board) = BOARD_HEIGHT
    /\ \A r \in 1..Len(board) : Len(board[r]) = BOARD_WIDTH

\* a lock has cleared the tenth line and the board has its 20 rows, the top
\* one empty
C8_AfterLineClear ==
    /\ stats.piecesPlaced = 28 /\ lines = 10
    /\ Len(board) = BOARD_HEIGHT /\ board[1] = EmptyRow

\* the step started a session: startGame ran, from the start screen or after
\* a game over, or from the Play Again button of a modal that came up over a
\* session already restarted (the one step that hides the modal and leaves a
\* new callback pending)
Started ==
    \/ ~isPlaying /\ isPlaying'
    \/ gameOverModal /\ ~gameOverModal' /\ isPlaying' /\ loops' = loops + 1

\* C9: the hold slot is empty or one piece type, and empty when a session
\* starts; once canHold is false a hold request changes nothing; the slot
\* changes only by a hold that finds canHold true and leaves it false, without
\* a lock; and canHold comes back only with a lock or a new session.
C9_HoldOncePerPiece ==
    /\ [](holdPiece \in PieceTypes \cup {"none"})
    /\ []((currentPiece # NoPiece /\ ~canHold) =>
              \A rnd \in GameRandoms : hold(G, rnd) = G)
    /\ [][/\ Started => holdPiece' = "none"
          /\ (holdPiece' # holdPiece /\ ~Started) =>
                 (canHold /\ ~canHold' /\ ~Locked)
          /\ (~canHold /\ canHold') => (Locked \/ Started)]_vars

\* a hold has been spent in a session in play: the slot is filled and canHold
\* is false
C9_HoldSpent ==
    /\ Active /\ ~isPaused /\ currentPiece # NoPiece
    /\ holdPiece # "none" /\ ~canHold

\* the filled cell (r, c) of the probed shape is one that rejects: its column
\* is off the board, or its row is below the floor, or it is on a filled cell
\* of a row from 0 on
Rejects(b, p, r, c) ==
    LET boardX == p.x + c - 1
        boardY == p.y + r - 1
    IN  /\ p.shape[r][c] # 0
        /\ \/ boardX < 0 \/ boardX >= BOARD_WIDTH
           \/ boardY >= BOARD_HEIGHT
           \/ (boardY >= 0 /\ b[boardY + 1][boardX + 1] # 0)

\* C6: isValidPosition returns false exactly when some filled cell of the
\* shape is off the board sideways, below the floor, or on a filled cell of a
\* row from 0 on; a cell above row 0 rejects by its column alone.
C6_ValidIffNoCellRejects ==
    ret # -1 =>
        (ret = 0 <=> \E r \in 1..Len(currentPiece.shape) :
                        \E c \in 1..Len(currentPiece.shape) :
                            Rejects(board, currentPiece, r, c))

\* a position with filled cells above row 0 has been accepted
C6_AboveTopAccepted ==
    /\ ret = 1 /\ currentPiece # NoPiece
    /\ \E r \in 1..Len(currentPiece.shape) : \E c \in 1..Len(currentPiece.shape) :
          currentPiece.shape[r][c] # 0 /\ currentPiece.y + r - 1 < 0

\* a row with no empty cell
IsFull(rowCells) == \A c \in 1..BOARD_WIDTH : rowCells[c] # 0
NotFull(rowCells) == ~IsFull(rowCells)

\* C7: clearLines leaves the rows that were not full, in their order, under
\* one empty row for each full row, and returns the number of full rows.
C7_ClearLinesCompacts ==
    [][ret' # ret =>
          LET kept == SelectSeq(board, NotFull)
              n == Len(board) - Len(kept)
          IN  /\ ret' = n
              /\ board' = [i \in 1..n |-> EmptyRow] \o kept]_vars

\* four adjacent full rows have been removed from under rows that stay
C7_FourAdjacentCleared ==
    /\ ret = 4
    /\ \A r \in 1..4 : board[r] = EmptyRow
    /\ board[BOARD_HEIGHT] # EmptyRow /\ NotFull(board[BOARD_HEIGHT])

\* C10: the draws of the current block of seven are distinct piece types, so
\* a complete block holds each of the seven types once.
C10_BagBlockDistinct ==
    /\ Len(bagDraws) <= Len(BagOrder)
    /\ \A i \in 1..Len(bagDraws) : bagDraws[i] \in PieceTypes
    /\ \A i \in 1..Len(bagDraws) : \A j \in 1..Len(bagDraws) :
          i # j => bagDraws[i] # bagDraws[j]
    /\ Len(bagDraws) = Len(BagOrder) =>
          {bagDraws[i] : i \in 1..Len(bagDraws)} = PieceTypes

\* the second block of seven is complete
C10_SecondBlockComplete == steps = 14 /\ Len(bagDraws) = Len(BagOrder)

\* the last draw from the bag
LastDraw == bagDraws[Len(bagDraws)]

\* C11: once a session has started the queue holds at least 3 piece types;
\* startGame leaves the first draw active and the next three queued in their
\* order, and every later spawn makes the head of the queue the active piece,
\* keeps the rest in order and appends the one type drawn.
C11_QueueFifo ==
    /\ []((isPlaying \/ isGameOver) =>
              /\ Len(nextPieces) >= 3
              /\ \A i \in 1..Len(nextPieces) : nextPieces[i] \in PieceTypes)
    /\ [][/\ Started =>
               /\ Len(bagDraws') = 4
               /\ currentPiece' = NewPiece(bagDraws'[1])
               /\ nextPieces' = SubSeq(bagDraws', 2, 4)
          /\ (Spawned /\ ~Started) =>
               /\ currentPiece'.type = Head(nextPieces)
               /\ nextPieces' = Append(Tail(nextPieces), LastDraw')
          /\ ~Spawned => nextPieces' = nextPieces]_vars

\* a lock has spawned the T at the head of the queue T, I, S and the O drawn
\* from the bag is at the tail
C11_QueueShifted ==
    /\ stats.piecesPlaced = 28 /\ currentPiece # NoPiece
    /\ currentPiece.type = "T" /\ nextPieces = <<"I", "S", "O">>

\* C12: level is floor(lines / 10) + 1 in every state; startGame sets it to 1
\* and no other step lowers it.
C12_LevelFollowsLines ==
    /\ [](level = (lines \div 10) + 1)
    /\ [][/\ Started => level' = 1
          /\ ~Started => level' >= level]_vars

\* the tenth line has been cleared by a lock and the level is 2
C12_LevelUp == stats.piecesPlaced = 28 /\ lines = 10 /\ level = 2

\* C13: a lock that clears lines adds one to the combo counter, a lock that
\* clears none sets it to 0, startGame sets it to 0, and no other step
\* changes it.
C13_ComboCountsClearingLocks ==
    [][/\ Locked => combo' = (IF lines' > lines THEN combo + 1 ELSE 0)
       /\ Started => combo' = 0
       /\ (~Locked /\ ~Started) => combo' = combo]_vars

\* in the session that had cleared 18 lines with the counter at 1, the O has
\* locked beside the pit without clearing a line and the counter is 0
C13_ComboReset ==
    stats.piecesPlaced = 50 /\ lines = 18 /\ combo = 0 /\ stats.maxCombo = 1

\* the fields of the Game other than isPaused
restOfGame == <<board, currentPiece, nextPieces, holdPiece, canHold, score,
                level, lines, combo, gameMode, isPlaying, isGameOver,
                dropTimer, lockTimer, bag, stats>>

\* C14: while the session is paused moveLeft, moveRight, moveDown, hardDrop,
\* rotate, hold and gameLoop leave the Game as it is, no step that leaves it
\* paused changes the board, the active piece, the hold slot, the queue, the
\* score or the timers, and pausing and resuming change only isPaused.
C14_PausedFrozen ==
    /\ [](isPaused =>
             /\ moveLeft(G) = G /\ moveRight(G) = G /\ moveDown(G) = G
             /\ \A clockwise \in BOOLEAN : rotate(G, clockwise) = G
             /\ \A rnd \in GameRandoms :
                   /\ hardDrop(G, rnd) = G /\ hold(G, rnd) = G
                   /\ gameLoop(G, rnd).g = G)
    /\ [][/\ (isPaused /\ isPaused') =>
               UNCHANGED <<board, currentPiece, holdPiece, nextPieces, score,
                           dropTimer, lockTimer>>
          /\ (isPaused # isPaused' /\ ~Started) => UNCHANGED restOfGame]_vars

\* a session paused with the piece in the air, room on both sides and time on
\* the drop timer, and an operation performed since
C14_PausedInTheAir ==
    /\ isPaused /\ isPlaying /\ currentPiece # NoPiece /\ dropTimer > 0
    /\ steps >= 2
    /\ \A d \in {<<-1, 0>>, <<1, 0>>, <<0, 1>>} :
          isValidPosition(board, currentPiece.x + d[1], currentPiece.y + d[2],
                          currentPiece.shape)

\* C15: pause() after pause() changes nothing more; in a session in play it
\* sets isPaused and nothing else; when the session is not playing or the
\* game is over it changes nothing.
C15_PauseIdempotent ==
    /\ pause(pause(G)) = pause(G)
    /\ (isPlaying /\ ~isGameOver) => pause(G) = [G EXCEPT !.isPaused = TRUE]
    /\ (~isPlaying \/ isGameOver) => pause(G) = G

\* pause() has acted on a session in play with time on the drop timer, and a
\* second pause() finds it paused
C15_PausedOnce ==
    isPaused /\ isPlaying /\ ~isGameOver /\ dropTimer > 0 /\ pause(G) = G

\* the active piece moved by (dx, dy) and given the shape
Target(dx, dy, shape) ==
    [currentPiece EXCEPT !.x = @ + dx, !.y = @ + dy, !.shape = shape]

\* no position rotate tries with the rotated shape fits: the piece where it
\* is, and the piece moved by each wall kick
NoRotationFits(clockwise) ==
    LET rotated == rotateMatrix(currentPiece.shape, clockwise)
        kicks == getWallKicks(currentPiece.type)
    IN  /\ ~PieceFits(board, Target(0, 0, rotated))
        /\ \A k \in 1..Len(kicks) :
              ~PieceFits(board, Target(kicks[k][1], kicks[k][2], rotated))

\* C16: a moveLeft, moveRight or moveDown whose target position does not fit,
\* and a rotate none of whose candidate positions fits, returns false and
\* leaves the Game as it is.
C16_FailedMoveChangesNothing ==
    currentPiece # NoPiece =>
        /\ ~PieceFits(board, Target(-1, 0, currentPiece.shape)) =>
               (moveLeft(G) = G /\ ~CanMove(G, -1, 0))
        /\ ~PieceFits(board, Target(1, 0, currentPiece.shape)) =>
               (moveRight(G) = G /\ ~CanMove(G, 1, 0))
        /\ ~PieceFits(board, Target(0, 1, currentPiece.shape)) =>
               (moveDown(G) = G /\ ~CanMove(G, 0, 1))
        /\ \A clockwise \in BOOLEAN :
               NoRotationFits(clockwise) =>
                   (rotate(G, clockwise) = G /\ ~RotateOk(G, clockwise))

\* a session in play whose piece can go neither left nor right nor down, with
\* time on the lock timer, after an operation
C16_StuckWithLockTimer ==
    /\ Active /\ ~isPaused /\ currentPiece # NoPiece
    /\ lockTimer > 0 /\ steps >= 1
    /\ ~PieceFits(board, Target(-1, 0, currentPiece.shape))
    /\ ~PieceFits(board, Target(1, 0, currentPiece.shape))
    /\ ~PieceFits(board, Target(0, 1, currentPiece.shape))

\* the rows the active piece can fall: it fits at each of them and not one
\* row further
FallRows ==
    CHOOSE d \in 0..BOARD_HEIGHT :
        /\ ~PieceFits(board, Target(0, d + 1, currentPiece.shape))
        /\ \A k \in 1..d : PieceFits(board, Target(0, k, currentPiece.shape))

\* board b with the filled cells of piece p written into it
WithPiece(b, p) ==
    AsSeq([r \in 1..BOARD_HEIGHT |-> AsSeq([c \in 1..BOARD_WIDTH |->
        IF /\ r - p.y >= 1 /\ r - p.y <= Len(p.shape)
           /\ c - p.x >= 1 /\ c - p.x <= Len(p.shape)
           /\ p.shape[r - p.y][c - p.x] # 0
        THEN p.color ELSE b[r][c]])])

\* C17: whatever the lock timer, hardDrop locks the active piece FallRows
\* rows further down in its column and shape: the board becomes the board
\* with the piece written there and its full rows cleared, pieces-placed goes
\* up by one, and the score by 2 * FallRows and the points of the lines
\* cleared; on the empty board a fresh I ends in the bottom row with no line
\* cleared and 36 points.
C17_HardDropLocksAtBottom ==
    (currentPiece # NoPiece /\ ~isPaused) =>
        \A fall \in {FallRows} :
          \A landed \in {WithPiece(board, Target(0, fall, currentPiece.shape))},
             rnd \in GameRandoms :
           \A h \in {hardDrop(G, rnd)} :
            \A n \in {Cardinality({r \in 1..BOARD_HEIGHT : IsFull(landed[r])})} :
                /\ h.stats.piecesPlaced = stats.piecesPlaced + 1
                /\ h.lines = lines + n
                /\ h.board = [i \in 1..n |-> EmptyRow]
                                 \o SelectSeq(landed, NotFull)
                /\ h.score = score + POINTS_HARD_DROP * fall
                                 + BasePoints(n) * h.level
                                 + (IF n > 0 THEN COMBO_MULTIPLIER * combo ELSE 0)
                /\ (board = EmptyBoard /\ currentPiece = NewPiece("I")) =>
                       /\ h.board = WithPiece(EmptyBoard,
                                        [NewPiece("I") EXCEPT !.y = 18])
                       /\ h.lines = lines /\ h.score = score + 36

\* the first piece of a session, an I, has been hard-dropped on the empty
\* board: it lies in the bottom row, one piece placed, 36 points
C17_FirstPieceDropped ==
    /\ stats.piecesPlaced = 1 /\ score = 36 /\ lines = 0
    /\ board = WithPiece(EmptyBoard, [NewPiece("I") EXCEPT !.y = 18])

\* rotate(g, clockwise) needs no wall kick: the rotated shape fits where the
\* piece is
NoKick(g, clockwise) ==
    PieceFits(g.board,
              [g.currentPiece EXCEPT
                   !.shape = rotateMatrix(g.currentPiece.shape, clockwise)])

\* n rotations of g in one direction, and whether none of them needs a kick
RECURSIVE Turns(_, _, _)
Turns(g, clockwise, n) ==
    IF n = 0 THEN g ELSE Turns(rotate(g, clockwise), clockwise, n - 1)

RECURSIVE NoKicks(_, _, _)
NoKicks(g, clockwise, n) ==
    n = 0 \/ (NoKick(g, clockwise) /\ NoKicks(rotate(g, clockwise), clockwise, n - 1))

\* C18: four rotations in one direction none of which needs a wall kick, and a
\* clockwise rotation followed by a counter-clockwise one neither of which
\* needs a kick, leave the active piece with the shape, the rotation index
\* and the position it had.
C18_RotationsReturn ==
    currentPiece # NoPiece =>
        /\ \A clockwise \in BOOLEAN :
              NoKicks(G, clockwise, 4) =>
                  Turns(G, clockwise, 4).currentPiece = currentPiece
        /\ (NoKick(G, TRUE) /\ NoKick(rotate(G, TRUE), FALSE)) =>
               rotate(rotate(G, TRUE), FALSE).currentPiece = currentPiece

\* four rotations have been made and the T is as spawned, with room for four
\* more in either direction without a kick
C18_FourTurnsMade ==
    /\ steps = 4 /\ currentPiece.type = "T" /\ currentPiece.rotation = 0
    /\ currentPiece.shape = TETROMINOS["T"].shape
    /\ NoKicks(G, TRUE, 4) /\ NoKicks(G, FALSE, 4)

\* C19: a step that brings the session to game-over hands exactly one record
\* to highscores.submitScore, made of the player name, score, level, lines,
\* game mode, pieces placed, T-spins and longest combo the session has when
\* the spawn has failed; no other step hands over a record.
C19_OneRecordPerGameOver ==
    [][IF ~isGameOver /\ isGameOver'
       THEN submitted' = Append(submitted, ScoreRecord(G'))
       ELSE submitted' = submitted]_vars

\* the game ended under the name Ann, one record was handed over, and the
\* name has been changed since
C19_RecordKept ==
    /\ isGameOver /\ playerName = "Player"
    /\ Len(submitted) = 1
    /\ submitted[1].playerName = "Ann" /\ submitted[1].score = score
    /\ submitted[1].piecesPlaced = stats.piecesPlaced

\* C20: whatever becomes of the submission, a session that is over is not
\* playing, the steps that settle the submission or fire the timeout leave
\* the flags and the score, level and lines as they are, and the game-over
\* modal is eventually displayed unless a new session starts first.
C20_GameOverWhateverSubmission ==
    /\ [](isGameOver => ~isPlaying)
    /\ [][(awaiting' < awaiting \/ modalTimers' < modalTimers) =>
              UNCHANGED <<isGameOver, isPlaying, score, level, lines>>]_vars
    /\ (isGameOver ~> (gameOverModal \/ ~isGameOver))

\* what C21 says of every field but the drop timer, of the Game s that
\* startGame has left: the board is empty, the counters are at their
\* starting values, the session is playing, and the first four draws of a
\* fresh bag are the active piece at its spawn position and the queue
FreshGame(s) ==
    /\ s.board = EmptyBoard
    /\ s.score = 0 /\ s.level = 1 /\ s.lines = 0 /\ s.combo = 0
    /\ s.holdPiece = "none" /\ s.canHold
    /\ s.stats = NewStats
    /\ s.lockTimer = 0
    /\ s.isPlaying /\ ~s.isPaused /\ ~s.isGameOver
    /\ Len(s.bagDraws) = 4 /\ Len(s.bag) = 3
    /\ s.currentPiece = NewPiece(s.bagDraws[1])
    /\ s.nextPieces = SubSeq(s.bagDraws, 2, 4)

\* C21 (amended): from any state, startGame leaves a fresh game whose drop
\* timer holds the one frame step of the gameLoop call that ends startGame.
C21_StartGameResetsOneTick ==
    \A rnd \in GameRandoms :
        \A s \in {gameLoop(startGame(G, rnd), rnd).g} :
            FreshGame(s) /\ s.dropTimer = FRAME_STEP

\* C21 as stated: from any state, startGame leaves a fresh game with both
\* timers at 0.
C21_StartGameResetsTimersZero ==
    \A rnd \in GameRandoms :
        \A s \in {gameLoop(startGame(G, rnd), rnd).g} :
            FreshGame(s) /\ s.dropTimer = 0

\* a session that was restarted while it was playing: the game ended, Enter
\* started the next one, and Play Again started a third over it
C21_RestartedWhilePlaying ==
    /\ loops = 3 /\ Len(submitted) = 1
    /\ FreshGame(G) /\ dropTimer = FRAME_STEP

\* the base interval and the speedup per level that C22 gives for each mode
StatedSpeeds ==
    [easy |-> <<1000, 80>>, normal |-> <<800, 60>>, hard |-> <<600, 40>>,
     extreme |-> <<400, 20>>]

\* C22: in every mode and at every level getDropSpeed returns
\* max(50, base - (level - 1) * speedup) for the stated base and speedup; it
\* is at least 50 and it does not grow when the level goes up by one.
C22_DropSpeedFormula ==
    ret # -1 =>
        LET base == StatedSpeeds[gameMode][1]
            speedup == StatedSpeeds[gameMode][2]
        IN  /\ ret = Max(50, base - (level - 1) * speedup)
            /\ ret >= 50
            /\ getDropSpeed([G EXCEPT !.level = level + 1]) <= ret

\* extreme at level 19: 400 - 18 * 20 is 40, and the interval is 50
C22_FloorReached == ret = 50 /\ gameMode = "extreme" /\ level = 19

\* the random numbers of a refill when Math.random() returns 0 each time
NoRandom == [i \in 1..6 |-> 0]

\* C23: getGhostPosition leaves the Game as it is and returns the column and
\* the shape of the active piece with the row that hardDrop's loop reaches;
\* when hardDrop acts, the board it leaves is the board with the piece
\* written at the ghost's row, full rows removed.
C23_GhostIsHardDropRow ==
    currentPiece # NoPiece =>
        \A gp \in {getGhostPosition(G)} :
            /\ gp.g = G
            /\ gp.ghost.x = currentPiece.x
            /\ gp.ghost.shape = currentPiece.shape
            /\ gp.ghost.y = currentPiece.y + DropDistance(G, 0)
            /\ ~isPaused =>
                 \A landed \in {WithPiece(board,
                                    [currentPiece EXCEPT !.y = gp.ghost.y])} :
                   \A n \in {Cardinality({r \in 1..BOARD_HEIGHT :
                                              IsFull(landed[r])})} :
                     hardDrop(G, NoRandom).board =
                         [i \in 1..n |-> EmptyRow] \o SelectSeq(landed, NotFull)

\* after a frame, a piece in the air whose ghost rests on the stack, above
\* the floor
C23_GhostOnStack ==
    /\ Active /\ ~isPaused /\ steps > 0 /\ currentPiece # NoPiece
    /\ GhostY(G) > currentPiece.y + 3
    /\ \E r \in 1..Len(currentPiece.shape), c \in 1..Len(currentPiece.shape) :
          /\ currentPiece.shape[r][c] # 0
          /\ GhostY(G) + r < BOARD_HEIGHT
          /\ board[GhostY(G) + r + 1][currentPiece.x + c] # 0

\* the four lifecycle states as values of the three flags
NotStarted == ~isPlaying /\ ~isPaused /\ ~isGameOver
Playing == isPlaying /\ ~isPaused /\ ~isGameOver
Paused == isPlaying /\ isPaused /\ ~isGameOver
GameOver == ~isPlaying /\ ~isPaused /\ isGameOver

\* C24: the flags describe one of NotStarted, Playing, Paused and GameOver:
\* paused implies playing, game-over implies neither playing nor paused, and
\* playing and game-over are never both true.
C24_OneLifecycleState ==
    /\ NotStarted \/ Playing \/ Paused \/ GameOver
    /\ isPaused => isPlaying
    /\ isGameOver => (~isPlaying /\ ~isPaused)
    /\ ~(isPlaying /\ isGameOver)

\* the game is over, its modal is displayed, and the session had been played
C24_OverModalShown ==
    GameOver /\ gameOverModal /\ stats.piecesPlaced > 0 /\ steps > 0

\* the step is the close event of the socket
Closes == serverClient.ws # "closed" /\ serverClient'.ws = "closed"

\* the close event has set no timeout: the client has stopped retrying
GivesUp == Closes /\ serverClient'.reconnectTimers = serverClient.reconnectTimers

\* C25: a close event sets a timeout whose delay doubles with each attempt
\* since the last open; the client stops retrying once it has made 5
\* attempts without an open, never more, and is then on the HTTP API, which
\* is neither connected nor mock mode; an open sets the count to 0.
C25_FiveRetriesThenHttp ==
    /\ [](serverClient.reconnectAttempts <= 5)
    /\ [][/\ (Closes /\ ~GivesUp) =>
                serverClient'.reconnectTimers =
                    <<reconnectDelay * Pow2(serverClient.reconnectAttempts)>>
          /\ GivesUp => /\ serverClient.reconnectAttempts = 5
                        /\ ~serverClient'.mockMode
                        /\ ~serverClient'.connected
          /\ serverClient'.ws = "open" =>
                serverClient'.reconnectAttempts = 0]_vars

\* C26: a score that did not exceed the stored best of its game mode when it
\* was recorded is in no local store and has not gone to the server, and the
\* call of submitScore that recorded it returned isHighscore = false.
C26_OnlyPersonalBests ==
    /\ \A e \in highscores.sent \cup highscores.scores
                \cup highscores.jetrix_scores :
          e.timestamp \notin highscores.beaten
    /\ highscores.result.timestamp \in highscores.beaten =>
          ~highscores.result.isHighscore

\* C27: while submitScore awaits the server and from then on, the new
\* personal best is in the local database; whatever comes of the server
\* submission the database keeps its scores, and the call, unless a page
\* load ends it, then returns isHighscore = true with the rank of the score
\* in the local database.
C27_LocalFirstWhateverServer ==
    [][/\ highscores'.at \in {"serverClient", "getRank"} =>
              highscores'.entry \in highscores'.scores
       /\ (highscores.at = "serverClient" /\ highscores'.at = "getRank") =>
              /\ highscores'.scores = highscores.scores
              /\ highscores'.entry = highscores.entry
       /\ (highscores.at = "getRank" /\ highscores'.result # NoEntry) =>
              /\ highscores'.scores = highscores.scores
              /\ highscores'.result.isHighscore
              /\ highscores'.result.timestamp = highscores.entry.timestamp
              /\ highscores'.result.rank =
                     RankIn(highscores.scores, highscores.entry.score,
                            highscores.entry.gameMode)
              /\ highscores.entry \in highscores'.scores]_vars

\* a second personal best was returned as rank 1 of the database, and the
\* server has the first one only
C27_SavedNotSynced ==
    /\ highscores.at = "idle" /\ highscores.hasClient /\ ~serverClient.mockMode
    /\ Cardinality(highscores.scores) = 2 /\ Cardinality(highscores.sent) = 1
    /\ highscores.result.timestamp = 2 /\ highscores.result.isHighscore
    /\ highscores.result.rank = 1

\* C28: when gameLoop locks a piece, the piece had been unable to move down,
\* unchanged, for at least the lock delay of tick time.
C28_LockedAfterLockDelay ==
    lockedAfter # -1 => lockedAfter >= LOCK_DELAY * Scale

\* C29: a call of gameLoop in a session that is playing and not paused adds
\* one frame step to the drop timer; when that reaches the drop interval the
\* drop timer is set to 0 and the piece goes down one row with the lock
\* timer set to 0, or cannot, and then the drop interval is added to the lock
\* timer and the piece is locked if the lock timer has reached the lock
\* delay, and only then; in any other lifecycle state the call changes
\* nothing, and no step makes a timer grow unless it leaves the session
\* playing and not paused.
C29_TickTimers ==
    /\ [][(dropTimer' > dropTimer \/ lockTimer' > lockTimer) =>
              (isPlaying' /\ ~isPaused' /\ ~isGameOver')]_vars
    /\ [](\A t \in {gameLoop(G, NoRandom).g}, speed \in {getDropSpeed(G) * Scale} :
        IF ~(isPlaying /\ ~isPaused /\ ~isGameOver)
        THEN t = G
        ELSE IF dropTimer + FRAME_STEP < speed
        THEN /\ t.dropTimer = dropTimer + FRAME_STEP
             /\ t.lockTimer = lockTimer /\ t.currentPiece = currentPiece
             /\ t.stats = stats /\ t.board = board
        ELSE IF PieceFits(board, Target(0, 1, currentPiece.shape))
        THEN /\ t.dropTimer = 0 /\ t.lockTimer = 0
             /\ t.currentPiece = Target(0, 1, currentPiece.shape)
             /\ t.stats = stats /\ t.board = board
        ELSE IF lockTimer + speed < LOCK_DELAY * Scale
        THEN /\ t.dropTimer = 0 /\ t.lockTimer = lockTimer + speed
             /\ t.currentPiece = currentPiece
             /\ t.stats = stats /\ t.board = board
        ELSE /\ t.dropTimer = 0 /\ t.lockTimer = 0
             /\ t.stats.piecesPlaced = stats.piecesPlaced + 1)

\* a frame has found the piece at rest with the drop timer due, and the lock
\* timer holds one drop interval, short of the lock delay
C29_LockTimerRunning ==
    /\ isPlaying /\ ~isPaused /\ steps > 0
    /\ dropTimer = 0 /\ lockTimer = getDropSpeed(G) * Scale
    /\ lockTimer < LOCK_DELAY * Scale
    /\ ~PieceFits(board, Target(0, 1, currentPiece.shape))

\* ------------------------------------------------ soft drop against gravity
\* Play with the ArrowDown key alone: the frames and the three handlers of
\* the soft drop, as often as the player likes, until gravity locks the piece.

\* an O in the air at level 1 and at level 7, where one failed gravity tick
\* leaves the lock timer short of the lock delay; and the I at rest under
\* the top with ArrowDown held
DropSessions ==
    {[g |-> InPlay(SingleBoard, PieceAt("O", 0, 8, 14), <<"T", "I", "S">>,
                   <<"Z", "J", "L", "O">>, <<"T", "I", "S">>, "none",
                   9, 0, 27, 1500),
      loops |-> 1, c |-> NewControls],
     [g |-> InPlay(SingleBoard, PieceAt("O", 0, 8, 15), <<"T", "I", "S">>,
                   <<"L">>, <<"Z", "J", "O", "T", "I", "S">>, "none",
                   69, 0, 177, 30000),
      loops |-> 1, c |-> NewControls],
     HighSession}

\* gravity has locked a piece
PieceLocked == lockedAfter # -1

\* a rendering frame
DropFrame ==
    /\ ~PieceLocked /\ loops > 0
    /\ \E rnd \in GameRandoms :
          LET run == RunLoops(G, loops, rnd)
          IN  SetG(run.g) /\ loops' = run.loops
    /\ UNCHANGED <<syncVars, controlVars, ret, steps>>

\* keydown ArrowDown: handleSoftDrop
DropKeyDown ==
    /\ ~PieceLocked /\ "ArrowDown" \notin keys
    /\ keys' = keys \cup {"ArrowDown"}
    /\ SetG(IF Handles(G) THEN moveDown(G) ELSE G)
    /\ softDropTimer' = (softDropTimer \/ Handles(G))
    /\ UNCHANGED <<syncVars, loops, dasTimer, arrTimer, ret, steps>>

\* keyup of ArrowDown: stopSoftDrop
DropKeyUp ==
    /\ ~PieceLocked /\ "ArrowDown" \in keys
    /\ keys' = keys \ {"ArrowDown"}
    /\ softDropTimer' = FALSE
    /\ UNCHANGED <<syncVars, engineVars, loops, dasTimer, arrTimer, ret, steps>>

\* the interval of handleSoftDrop fires
DropInterval ==
    /\ ~PieceLocked /\ softDropTimer
    /\ "ArrowDown" \in keys /\ ~isPaused
    /\ SetG(moveDown(G))
    /\ UNCHANGED <<syncVars, loops, controlVars, ret, steps>>

InitDrop == \E s \in DropSessions : InitFrom(s)

NextDrop == DropFrame \/ DropKeyDown \/ DropKeyUp \/ DropInterval

\* ENABLED <<DropFrame>>_vars: a callback is pending, and its call changes the
\* drop timer, or ends the loop once the game is over; the call of a paused
\* session changes nothing
FrameDue == ~PieceLocked /\ loops > 0 /\ ~Paused

\* the browser keeps rendering frames: WF_vars(DropFrame)
FramesKeepComing == []<>(~FrameDue) \/ []<><<DropFrame>>_vars

SpecDrop == InitDrop /\ [][NextDrop]_vars /\ FramesKeepComing

\* a frame that is due is a step
FrameDueChanges ==
    FrameDue => \A rnd \in GameRandoms :
                    \A run \in {RunLoops(G, loops, rnd)} :
                        run.g # G \/ run.loops # loops

\* C30: while frames keep coming and the player uses the ArrowDown key only,
\* a session that is playing leads to the lock of its piece by gravity.
C30_SoftDropCannotPostponeLock == Playing ~> PieceLocked

\* at a drop interval below the lock delay, the piece was locked with
\* ArrowDown held and the interval of the soft drop running
C30_LockedUnderSoftDrop ==
    /\ PieceLocked /\ softDropTimer /\ "ArrowDown" \in keys
    /\ getDropSpeed(G) < LOCK_DELAY

\* the fields of the Game other than the active piece and the lock timer
restOfMove == <<board, nextPieces, holdPiece, canHold, score, level, lines,
                combo, gameMode, isPlaying, isPaused, isGameOver, dropTimer,
                bag, stats>>

\* the step moved the active piece by (dx, dy) and left its shape alone
MovedBy(dx, dy) ==
    /\ currentPiece # NoPiece /\ currentPiece' # NoPiece
    /\ currentPiece' = Target(dx, dy, currentPiece.shape)

\* the step turned the active piece
Turned90 ==
    /\ currentPiece # NoPiece /\ currentPiece' # NoPiece
    /\ \E clockwise \in BOOLEAN :
          /\ currentPiece'.shape = rotateMatrix(currentPiece.shape, clockwise)
          /\ currentPiece'.rotation =
                 (currentPiece.rotation + (IF clockwise THEN 1 ELSE 3)) % 4
    /\ currentPiece'.type = currentPiece.type
    /\ stats'.piecesPlaced = stats.piecesPlaced /\ holdPiece' = holdPiece

\* C31: a moveLeft or moveRight whose target fits moves the piece one column,
\* sets the lock timer to 0 and changes nothing else, and so does every step
\* that moves the piece one column; a rotate one of whose positions fits, and
\* every step that turns the piece, sets the lock timer to 0; moveDown,
\* the keydown of ArrowDown and every step that takes the piece down a row
\* off the gravity tick leave the lock timer as it is.
C31_LateralResetsSoftDropKeeps ==
    /\ []((currentPiece # NoPiece /\ ~isPaused) =>
            /\ PieceFits(board, Target(-1, 0, currentPiece.shape)) =>
                  moveLeft(G) = [G EXCEPT !.currentPiece.x = @ - 1,
                                          !.lockTimer = 0]
            /\ PieceFits(board, Target(1, 0, currentPiece.shape)) =>
                  moveRight(G) = [G EXCEPT !.currentPiece.x = @ + 1,
                                           !.lockTimer = 0]
            /\ \A clockwise \in BOOLEAN :
                  ~NoRotationFits(clockwise) =>
                      rotate(G, clockwise).lockTimer = 0)
    /\ [](moveDown(G).lockTimer = lockTimer)
    /\ [][/\ (MovedBy(-1, 0) \/ MovedBy(1, 0)) =>
               (lockTimer' = 0 /\ UNCHANGED restOfMove)
          /\ Turned90 => lockTimer' = 0
          /\ ("ArrowDown" \in keys' \ keys) => lockTimer' = lockTimer
          /\ (MovedBy(0, 1) /\ dropTimer' = dropTimer) =>
               lockTimer' = lockTimer]_vars

\* ArrowDown has been pressed on a piece at rest with the lock timer running,
\* which still runs, and the piece can go left
C31_RestingWithRoom ==
    /\ "ArrowDown" \in keys /\ lockTimer > 0 /\ ~isPaused /\ isPlaying
    /\ currentPiece # NoPiece
    /\ PieceFits(board, Target(-1, 0, currentPiece.shape))
    /\ ~PieceFits(board, Target(0, 1, currentPiece.shape))

\* the step is the keydown of ArrowDown on a session that handles input, with
\* room below the piece: a soft drop that succeeds
SoftDropped ==
    /\ "ArrowDown" \in keys' \ keys
    /\ isPlaying /\ ~isPaused /\ currentPiece # NoPiece
    /\ PieceFits(board, Target(0, 1, currentPiece.shape))

\* C32: a soft drop that succeeds takes the piece down one row, adds 1 to the
\* score and sets the drop timer to 0.
C32_SoftDropResetsDropTimer ==
    [][SoftDropped =>
           /\ currentPiece' = Target(0, 1, currentPiece.shape)
           /\ score' = score + POINTS_SOFT_DROP
           /\ dropTimer' = 0]_vars

\* the wall kicks as stated, in their order
StatedKicks(type) ==
    IF type = "I" THEN << <<-1, 0>>, <<2, 0>>, <<-1, 2>>, <<2, -1>> >>
    ELSE IF type = "O" THEN << >>
    ELSE << <<-1, 0>>, <<1, 0>>, <<-1, -1>>, <<1, -1>>, <<0, 1>> >>

\* the active piece turned and moved by the offset
TurnedAt(clockwise, offset) ==
    [currentPiece EXCEPT
         !.x = @ + offset[1], !.y = @ + offset[2],
         !.shape = rotateMatrix(currentPiece.shape, clockwise),
         !.rotation = (@ + (IF clockwise THEN 1 ELSE 3)) % 4]

\* the offsets rotate accepts: none when the piece fits where it is, and a
\* stated kick otherwise, the earlier ones not fitting
Accepted(clockwise) ==
    LET kicks == StatedKicks(currentPiece.type)
        fits(o) == PieceFits(board, TurnedAt(clockwise, o))
    IN  IF fits(<<0, 0>>) THEN {<<0, 0>>}
        ELSE {kicks[k] : k \in {j \in 1..Len(kicks) :
                                   /\ fits(kicks[j])
                                   /\ \A i \in 1..(j - 1) : ~fits(kicks[i])}}

\* C33: rotate takes the turned shape where the piece is when it fits there,
\* and otherwise at the first of the stated wall kicks where it fits, with
\* the rotation index one up (clockwise) or three up (counter-clockwise)
\* modulo 4; when it fits nowhere the piece stays as it is; the rotation
\* index is always one of 0..3.
C33_FirstFittingKick ==
    (currentPiece # NoPiece) =>
        /\ currentPiece.rotation \in 0..3
        /\ ~isPaused =>
              \A clockwise \in BOOLEAN :
                 \A ok \in {Accepted(clockwise)} :
                    /\ Cardinality(ok) <= 1
                    /\ \A o \in ok : rotate(G, clockwise).currentPiece =
                                         TurnedAt(clockwise, o)
                    /\ ok = {} => rotate(G, clockwise).currentPiece = currentPiece

\* a piece has been turned, by a wall kick that took it up a row, and a turn
\* now fits neither where the piece is nor at the first wall kick, but at a
\* later one and at one later still
C33_SecondKickNeeded ==
    /\ steps >= 1 /\ currentPiece # NoPiece /\ currentPiece.y \notin TurnRows
    /\ \E clockwise \in BOOLEAN :
          \E kicks \in {StatedKicks(currentPiece.type)} :
             \E k \in 2..Len(kicks) :
                /\ Accepted(clockwise) = {kicks[k]}
                /\ \E j \in (k + 1)..Len(kicks) :
                      PieceFits(board, TurnedAt(clockwise, kicks[j]))

\* the cell (x, y) is blocked: beyond a side wall, below the floor, or filled
CellBlocked(b, x, y) ==
    \/ x < 0 \/ x >= BOARD_WIDTH \/ y >= BOARD_HEIGHT
    \/ (y >= 0 /\ b[y + 1][x + 1] # 0)

\* the blocked cells among the four diagonal neighbours of the middle cell of
\* the 3x3 box of piece p
BlockedCorners(b, p) ==
    Cardinality({d \in {<<0, 0>>, <<2, 0>>, <<0, 2>>, <<2, 2>>} :
                    CellBlocked(b, p.x + d[1], p.y + d[2])})

\* C34: a step that turns a T adds 1 to the T-spin counter when at least 3 of
\* the 4 diagonal neighbours of its middle cell are blocked and leaves the
\* counter otherwise; no other step changes it but the start of a session.
C34_TSpinAroundCentre ==
    [][IF Turned90 /\ currentPiece.type = "T"
       THEN stats'.tSpins = stats.tSpins +
                (IF BlockedCorners(board', currentPiece') >= 3 THEN 1 ELSE 0)
       ELSE Started \/ stats'.tSpins = stats.tSpins]_vars

\* C35: a lock that clears lines adds the base points of the clear times the
\* level the session had when the piece locked, before the lines of this
\* clear raise it, on top of the hard-drop points and the combo bonus.
C35_LevelBeforeClear ==
    [][(Locked /\ lines' > lines) =>
          score' - score =
              POINTS_HARD_DROP * FallRows
              + BasePoints(lines' - lines) * level
              + COMBO_MULTIPLIER * combo]_vars

\* the rows of board b that are completely filled
FullRows(b) == {r \in 1..BOARD_HEIGHT : IsFull(b[r])}

\* C36: the board of every state has no completely filled row, and a lock
\* clears the rows the landed piece completes, which are at most 4.
C36_NoFullRowLeft ==
    /\ [](FullRows(board) = {})
    /\ [][Locked =>
            \A n \in {Cardinality(FullRows(
                         WithPiece(board, Target(0, FallRows,
                                                 currentPiece.shape))))} :
               /\ n \in 0..4
               /\ lines' = lines + n]_vars

\* a lock has cleared four rows at once, the whole stack
C36_FourRowsGone ==
    /\ stats.piecesPlaced = 60 /\ lines = 24 /\ board = EmptyBoard

\* C37: a step that changes the board locks a piece, unless it starts a
\* session with the empty board; the board after a lock is the board with the
\* colour of the piece in the cells it occupies from row 0 on, where it has
\* landed, and with the complete rows cleared; moveLeft, moveRight,
\* moveDown, rotate, hold, pause, resume, getGhostPosition and a gameLoop
\* that locks nothing leave the board as it is.
C37_BoardChangedByLockOnly ==
    /\ [][/\ board' # board => (Locked \/ (Started /\ board' = EmptyBoard))
          /\ Locked =>
               board' = ClearFrom(WithPiece(board,
                                      Target(0, FallRows, currentPiece.shape)),
                                  BOARD_HEIGHT - 1, 0).board]_vars
    /\ [](/\ moveLeft(G).board = board /\ moveRight(G).board = board
          /\ moveDown(G).board = board
          /\ pause(G).board = board /\ resume(G).board = board
          /\ getGhostPosition(G).g.board = board
          /\ \A clockwise \in BOOLEAN : rotate(G, clockwise).board = board
          /\ \A rnd \in GameRandoms :
                /\ hold(G, rnd).board = board
                /\ \A t \in {gameLoop(G, rnd).g} :
                      t.stats.piecesPlaced = stats.piecesPlaced =>
                          t.board = board)

\* the T has been locked with the top cell of its stem above the board: its
\* three other cells are in row 0, and the cell under the stem's place is
\* as it was
C37_LockedAboveTheTop ==
    /\ stats.piecesPlaced = 30 /\ lines = 4
    /\ board[1] = <<0, 0, 0, 0, 0, 0,
                    TETROMINOS["T"].color, TETROMINOS["T"].color,
                    TETROMINOS["T"].color, 0>>
    /\ board[2] = TopBoard[2]

\* C38: the score is a natural number; but for the start of a session no
\* step lowers it, and a step that changes it takes the piece down one row
\* for 1 point, by gravity or by the soft drop, or locks a piece for 2 points
\* per row of a hard drop and the points of the lines cleared; moveLeft,
\* moveRight, rotate, hold, pause, resume and a moveDown that fails leave it
\* as it is.
C38_ScoreSources ==
    /\ [](score \in Nat)
    /\ [][~Started =>
            /\ score' >= score
            /\ score' # score =>
                 \/ MovedBy(0, 1) /\ score' = score + POINTS_SOFT_DROP
                 \/ /\ Locked
                    /\ lines' = lines =>
                          score' = score + POINTS_HARD_DROP * FallRows
                    /\ lines' > lines =>
                          score' >= score + POINTS_HARD_DROP * FallRows
                                    + BasePoints(lines' - lines)]_vars
    /\ [](/\ moveLeft(G).score = score /\ moveRight(G).score = score
          /\ pause(G).score = score /\ resume(G).score = score
          /\ \A clockwise \in BOOLEAN : rotate(G, clockwise).score = score
          /\ \A rnd \in GameRandoms : hold(G, rnd).score = score
          /\ (currentPiece # NoPiece
              /\ ~PieceFits(board, Target(0, 1, currentPiece.shape))) =>
                 moveDown(G).score = score)

\* a gravity tick, with no key held, has taken the O down a row for a point
C38_GravityPoint ==
    /\ score = 3000 + POINTS_SOFT_DROP /\ keys = {} /\ dropTimer = 0
    /\ currentPiece # NoPiece /\ currentPiece.type = "O" /\ currentPiece.y = 6
    /\ stats.piecesPlaced = 49

\* piece p is of type t as it spawns: base orientation, centred, in row 0
AsSpawned(p, t) ==
    /\ p.type = t /\ p.shape = TETROMINOS[t].shape /\ p.rotation = 0
    /\ p.x = (BOARD_WIDTH - Len(TETROMINOS[t].shape[1])) \div 2 /\ p.y = 0

\* C39: a hold that finds a piece, canHold true and the session not paused
\* leaves the type of that piece in the slot and a piece as spawned active:
\* the head of the queue, the queue moved up by one, when the slot was empty,
\* and the type that was in the slot, with the queue and the bag as they
\* were, when it was not.
C39_HoldSwapsOrSpawns ==
    (currentPiece # NoPiece /\ canHold /\ ~isPaused) =>
        \A rnd \in GameRandoms :
           \A h \in {hold(G, rnd)} :
              /\ h.holdPiece = currentPiece.type
              /\ IF holdPiece = "none"
                 THEN /\ AsSpawned(h.currentPiece, Head(nextPieces))
                      /\ Len(h.nextPieces) = Len(nextPieces)
                      /\ SubSeq(h.nextPieces, 1, Len(nextPieces) - 1) =
                             Tail(nextPieces)
                 ELSE /\ AsSpawned(h.currentPiece, holdPiece)
                      /\ h.nextPieces = nextPieces /\ h.bag = bag

\* the O that was active is in the slot and the I that was there is active
\* as spawned, the queue as it was
C39_SwappedFromSlot ==
    /\ ~canHold /\ holdPiece = "O" /\ stats.piecesPlaced = 29
    /\ AsSpawned(currentPiece, "I") /\ nextPieces = <<"T", "S", "J">>

\* C40: once disconnect() has been called, no step sets a reconnection
\* timeout and none calls connect(): the close event of the socket that
\* disconnect() closed included.
C40_StaysDisconnected ==
    [][serverClient.disconnected =>
           /\ Len(serverClient'.reconnectTimers) <=
                  Len(serverClient.reconnectTimers)
           /\ serverClient'.heads <= serverClient.heads]_vars

====
